---- MODULE Spec2Model ----
(***************************************************************************)
(* A model of the qTalos / fidget value widgets.                           *)
(*                                                                         *)
(* The widget tree of the model:                                           *)
(*                                                                         *)
(*   cf  FidgetConfirmer(cancel_value = "CANCEL", close_on_confirm = True) *)
(*    `- st  StackedValueWidget("st", [A, B], selector_cls = "combo",      *)
(*            |                    validation_func = reject "a",           *)
(*            |                    auto_func = <drawn by the action>)      *)
(*            |- sel ComboSelector("select option")                       *)
(*            |- A   LineEdit("A", pattern = "[ab]", make_indicator = True,*)
(*            |               validation_func = reject "b")                *)
(*            `- B   ValueCheckBox("B", ("a", "b"))                        *)
(*                                                                         *)
(* Every handler of the code is one operator over a record s holding the   *)
(* fields of all widgets; an action applies one handler to the current     *)
(* state and stores the record it returns.                                 *)
(***************************************************************************)
EXTENDS Integers, Sequences, FiniteSets, TLC

VARIABLES
    text,              \* A.edit.text()
    checked,           \* B.checkbox.isChecked()
    comboIndex,        \* sel.combo_box.currentIndex()
    stackedIndex,      \* st.stacked.currentIndex()
    cancel_flag,       \* cf.cancel_flag
    ok_enabled,        \* cf.ok_button.isEnabled()
    closed,            \* cf has been closed
    _value,            \* w |-> w._value, the cached ParsedValue
    _suppress_update,  \* w |-> w._suppress_update
    indicator,         \* w |-> w.indicator_label.text()
    reloads,           \* w |-> runs of w._reload_value since w was last invalidated
    lastret,           \* the last ParsedValue an outside caller got from value()
    trace,             \* the steps of the last handler, in order
    exc,               \* the exception that escaped the last handler
    op,                \* the last handler
    heap,              \* the kwargs dict objects allocated so far
    templates,         \* the ValueWidgetTemplate objects made so far, in order
    sink,              \* the sink dict handed to extract_default
    made,              \* the fields ValueWidget.__init__ has set on self
    call               \* the last call into the template engine: arguments, outcome

wvars == <<text, checked, comboIndex, stackedIndex, cancel_flag, ok_enabled, closed,
           _value, _suppress_update, indicator, reloads, lastret, trace, exc, op>>
tvars == <<heap, templates, sink, made, call>>
vars == <<wvars, tvars>>

(***************************************************************************)
(* Bounds.                                                                 *)
(***************************************************************************)
\* the most reloads of one widget the model counts between two invalidations
MaxReloads == 3

(***************************************************************************)
(* The widgets and their construction arguments.                           *)
(***************************************************************************)
Widgets == {"cf", "st", "sel", "A", "B"}

\* the texts a user types into A
Texts == {"", "a", "b"}

\* StackedValueWidget.inners, in insertion order; Selector.options maps a name to
\* its index
inners == <<"A", "B">>

\* ValueCheckBox.value_selector: value_selector[False], value_selector[True]
false_val == "a"
true_val == "b"

\* FidgetConfirmer.NO_CANCEL, the default of cancel_value
NO_CANCEL == "NO_CANCEL"

\* FidgetConfirmer.cancel_value and close_on_confirm of the tree above
cancel_value == "CANCEL"
close_on_confirm == TRUE

\* exceptions
NoExc == "none"
ParseError == "ParseError"
ValidationErrorFunc == "ValidationError(validation_func)"
ValidationErrorPattern == "ValidationError(pattern)"
ValueError == "ValueError"
KeyError == "KeyError"
DoNotFill == "DoNotFill"

\* make_indicator of each widget: A's template asks for it, st inherits it through
\* extract_default, the selector, the checkbox and the confirmer set MAKE_INDICATOR False
make_indicator(w) == w \in {"A", "st"}

\* the validation_func passed at construction: the values it raises ValidationError for
validation_func(w) ==
    CASE w = "A" -> {"b"}
      [] w = "st" -> {"a"}
      [] OTHER -> {}

\* LineEdit.pattern of A, "[ab]": the texts that fully match
pattern_fullmatch(t) == t \in {"a", "b"}

(***************************************************************************)
(* ParsedValue                                                             *)
(***************************************************************************)
Unset == [state |-> "unset"]
from_value(v) == [state |-> "ok", value |-> v]
from_error(e) == [state |-> "err", value |-> e]
is_ok(pv) == pv.state = "ok"

\* the outcome of a call: a returned value or a raised exception
Return(s, v) == [s |-> s, k |-> "return", v |-> v]
Raise(s, e) == [s |-> s, k |-> "raise", e |-> e]

(***************************************************************************)
(* The record of all widget fields, and the log of a handler's steps.      *)
(***************************************************************************)
\* self.cancel_value: cancel_value, or what a confirmer constructed otherwise was given
self_cancel_value ==
    IF call.fn = "FidgetConfirmer" THEN call.cancel_value ELSE cancel_value

\* self.make_cancel
make_cancel == self_cancel_value # NO_CANCEL

\* the values for which the validation_func injected into A raises an exception that
\* is no ValidationError: none, unless the widget under test was given such a function
RuntimeError == "RuntimeError"
self_validation_raises ==
    IF call.fn = "validation_func" THEN call.raises ELSE {}

St ==
    [text |-> text, checked |-> checked, comboIndex |-> comboIndex,
     stackedIndex |-> stackedIndex, cancel_flag |-> cancel_flag,
     ok_enabled |-> ok_enabled, closed |-> closed, _value |-> _value,
     _suppress_update |-> _suppress_update, indicator |-> indicator,
     reloads |-> reloads, lastret |-> lastret, trace |-> <<>>, exc |-> NoExc,
     cancel_value |-> self_cancel_value, raises |-> self_validation_raises]

Log(s, w, e) == [s EXCEPT !.trace = Append(@, <<w, e>>)]

Assign(s, name) ==
    /\ text' = s.text
    /\ checked' = s.checked
    /\ comboIndex' = s.comboIndex
    /\ stackedIndex' = s.stackedIndex
    /\ cancel_flag' = s.cancel_flag
    /\ ok_enabled' = s.ok_enabled
    /\ closed' = s.closed
    /\ _value' = s._value
    /\ _suppress_update' = s._suppress_update
    /\ indicator' = s.indicator
    /\ reloads' = s.reloads
    /\ lastret' = s.lastret
    /\ trace' = s.trace
    /\ exc' = s.exc
    /\ op' = name

Set(s, name) ==
    /\ Assign(s, name)
    /\ UNCHANGED tvars

(***************************************************************************)
(* ValueWidget: the cached value                                           *)
(***************************************************************************)
Min(a, b) == IF a < b THEN a ELSE b

\* StackedValueWidget.current_subwidget: the page the QStackedWidget shows
current_subwidget(s) == inners[s.stackedIndex + 1]

\* Selector.options: the index registered for a name by add_option
options(name) == CHOOSE i \in 0..(Len(inners) - 1) : inners[i + 1] = name

RECURSIVE value(_, _)

\* ValueCheckBox.parse
ValueCheckBox_parse(s) == Return(s, IF s.checked THEN true_val ELSE false_val)

\* LineEdit.parse
LineEdit_parse(s) == Return(s, s.text)

\* ComboSelector.parse
ComboSelector_parse(s) == Return(s, s.comboIndex)

\* FidgetConfirmer.parse
FidgetConfirmer_parse_inner(s1) ==
    IF s1.exc # NoExc THEN Raise(s1, s1.exc)
    ELSE IF ~is_ok(s1._value["st"])
    THEN Raise(s1, ParseError)
    ELSE Return(s1, s1._value["st"].value)

\* FidgetConfirmer.parse, never looking at cancel_flag
FidgetConfirmer_parse_no_cancel(s) ==
    FidgetConfirmer_parse_inner(value(s, "st"))

FidgetConfirmer_parse(s) ==
    IF s.cancel_flag
    THEN Return(s, s.cancel_value)
    ELSE FidgetConfirmer_parse_inner(value(s, "st"))

\* w.parse(); StackedValueWidget.parse asks the current subwidget
parse_of(s, target) ==
    CASE target = "A" -> LineEdit_parse(s)
      [] target = "B" -> ValueCheckBox_parse(s)
      [] target = "sel" -> ComboSelector_parse(s)
      [] target = "cf" -> FidgetConfirmer_parse(s)

parse(s, w) ==
    parse_of(s, IF w = "st" THEN current_subwidget(s) ELSE w)

\* ValueWidget.validate: the exception it raises for v, NoExc when it returns
ValueWidget_validate(w, v) ==
    IF v \in validation_func(w) THEN ValidationErrorFunc ELSE NoExc

\* LineEdit.validate
LineEdit_validate(w, v) ==
    IF ValueWidget_validate(w, v) # NoExc THEN ValueWidget_validate(w, v)
    ELSE IF ~pattern_fullmatch(v) THEN ValidationErrorPattern
    ELSE NoExc

\* w.validate(v); StackedValueWidget.validate asks the current subwidget
validate_of(target, v) ==
    IF target = "A" THEN LineEdit_validate(target, v)
    ELSE ValueWidget_validate(target, v)

\* w.validate(v), the stacked widget running ValueWidget.validate on itself first
validate_own_first(s, w, v) ==
    IF w = "st" /\ ValueWidget_validate(w, v) # NoExc THEN ValueWidget_validate(w, v)
    ELSE validate_of(IF w = "st" THEN current_subwidget(s) ELSE w, v)

\* w.validate(v): ValueWidget.validate calls the injected validation_func before
\* anything else is checked, and what that raises passes through
validate(s, w, v) ==
    IF (IF w = "st" THEN current_subwidget(s) ELSE w) = "A" /\ v \in s.raises
    THEN RuntimeError
    ELSE validate_of(IF w = "st" THEN current_subwidget(s) ELSE w, v)

\* ValueWidget.plaintext_printers: the class's inner printers (none is declared by
\* LineEdit, ValueCheckBox or the selector), then str, then repr
ValueWidget_plaintext_printers(w) == <<"str", "repr">>

\* w.plaintext_printers(); StackedValueWidget.plaintext_printers asks the current
\* subwidget
plaintext_printers(s, w) ==
    ValueWidget_plaintext_printers(IF w = "st" THEN current_subwidget(s) ELSE w)

\* the exceptions _reload_value catches
Caught == {ParseError, ValidationErrorFunc, ValidationErrorPattern}

\* _reload_value, from the outcome p of parse(): validate, then store
store_uncaught(p, w, e) ==
    IF p.k = "raise"
    THEN IF p.e = ParseError
         THEN [p.s EXCEPT !._value[w] = from_error(p.e)]
         ELSE [p.s EXCEPT !.exc = p.e]
    ELSE IF e # NoExc
         THEN [p.s EXCEPT !.exc = e]
         ELSE [p.s EXCEPT !._value[w] = from_value(p.v)]

\* _reload_value with `except Exception`: whatever is raised is cached as an Err
store_catching_all(p, w, e) ==
    IF p.k = "raise" THEN [p.s EXCEPT !._value[w] = from_error(p.e), !.exc = NoExc]
    ELSE IF e # NoExc THEN [p.s EXCEPT !._value[w] = from_error(e)]
    ELSE [p.s EXCEPT !._value[w] = from_value(p.v)]

store(p, w, e) ==
    IF p.k = "raise"
    THEN IF p.e \in Caught
         THEN [p.s EXCEPT !._value[w] = from_error(p.e)]
         ELSE [p.s EXCEPT !.exc = p.e]
    ELSE IF e # NoExc
         THEN IF e \in Caught
              THEN [p.s EXCEPT !._value[w] = from_error(e)]
              ELSE [p.s EXCEPT !.exc = e]
         ELSE [p.s EXCEPT !._value[w] = from_value(p.v)]

validated_uncaught(p, w) ==
    store_uncaught(p, w, IF p.k = "raise" THEN NoExc ELSE validate(p.s, w, p.v))

validated(p, w) ==
    store(p, w, IF p.k = "raise" THEN NoExc ELSE validate(p.s, w, p.v))

\* ValueWidget._reload_value, without the except clause for ValidationError
_reload_value_uncaught(s, w) ==
    validated_uncaught(
        parse(Log([s EXCEPT !.reloads[w] = Min(@ + 1, MaxReloads)], w, "reload"), w), w)

\* ValueWidget._reload_value
_reload_value(s, w) ==
    validated(
        parse(Log([s EXCEPT !.reloads[w] = Min(@ + 1, MaxReloads)], w, "reload"), w), w)

\* ValueWidget.value, reloading on every call
value_always_reloads(s, w) ==
    IF s.exc # NoExc THEN s ELSE _reload_value(s, w)

\* ValueWidget.value: the state after the call; the call returns its _value[w]
value(s, w) ==
    IF s.exc # NoExc THEN s
    ELSE IF s._value[w] = Unset THEN _reload_value(s, w)
    ELSE s

\* ValueWidget._invalidate_value, doing nothing
_invalidate_value_noop(s, w) ==
    Log(s, w, "invalidate")

\* ValueWidget._invalidate_value
_invalidate_value(s, w) ==
    Log([s EXCEPT !._value[w] = Unset, !.reloads[w] = 0,
                  !.lastret = IF @.w = w THEN [w |-> "none", pv |-> Unset] ELSE @],
        w, "invalidate")

\* the tail of _update_indicator, the label set to 'OK' whatever the value
set_indicator_ok(s1, w) ==
    IF s1.exc # NoExc THEN s1
    ELSE Log(IF make_indicator(w) THEN [s1 EXCEPT !.indicator[w] = "OK"] ELSE s1,
             w, "indicator")

\* _update_indicator, from the state s1 after self.value()
set_indicator(s1, w) ==
    IF s1.exc # NoExc THEN s1
    ELSE Log(IF make_indicator(w)
             THEN [s1 EXCEPT !.indicator[w] = IF is_ok(s1._value[w]) THEN "OK" ELSE "ERR"]
             ELSE s1,
             w, "indicator")

\* ValueWidget._update_indicator, ignoring _suppress_update
_update_indicator_unsuppressed(s, w) ==
    IF s.exc # NoExc THEN s
    ELSE set_indicator(value(s, w), w)

\* ValueWidget._update_indicator
_update_indicator(s, w) ==
    IF s.exc # NoExc THEN s
    ELSE IF s._suppress_update[w] THEN Log(s, w, "suppressed")
    ELSE set_indicator(value(s, w), w)

(***************************************************************************)
(* Change notification                                                     *)
(***************************************************************************)
RECURSIVE change_value(_, _)

\* the setEnabled of _inner_changed, enabling the button whatever the value
set_ok_enabled_always(s1) ==
    [s1 EXCEPT !.ok_enabled = TRUE]

\* _inner_changed, from the state s1 after self.inner.value()
set_ok_enabled(s1) ==
    [s1 EXCEPT !.ok_enabled = is_ok(s1._value["st"])]

\* FidgetConfirmer._inner_changed, written as a change_value slot
_inner_changed_invalidating(s) ==
    IF s.exc # NoExc THEN s
    ELSE change_value(set_ok_enabled(value(Log(s, "cf", "_inner_changed"), "st")), "cf")

\* FidgetConfirmer._inner_changed
_inner_changed(s) ==
    IF s.exc # NoExc THEN s
    ELSE set_ok_enabled(value(Log(s, "cf", "_inner_changed"), "st"))

\* _selector_changed without stacked.setCurrentIndex
switch_page_stale(s1) ==
    IF ~is_ok(s1._value["sel"]) THEN [s1 EXCEPT !.exc = s1._value["sel"].value]
    ELSE change_value(s1, "st")

\* _selector_changed, emitting on_change before stacked.setCurrentIndex
switch_page_emit_first(s1) ==
    IF ~is_ok(s1._value["sel"]) THEN [s1 EXCEPT !.exc = s1._value["sel"].value]
    ELSE [change_value(s1, "st") EXCEPT !.stackedIndex = s1._value["sel"].value]

\* _selector_changed, from the state s1 after self.selector.value()
switch_page(s1) ==
    IF ~is_ok(s1._value["sel"]) THEN [s1 EXCEPT !.exc = s1._value["sel"].value]
    ELSE change_value([s1 EXCEPT !.stackedIndex = s1._value["sel"].value], "st")

\* StackedValueWidget._selector_changed
_selector_changed(s) ==
    IF s.exc # NoExc THEN s
    ELSE switch_page(value(Log(s, "st", "_selector_changed"), "sel"))

\* the slots connected to w.on_change
slots(s1, w) ==
    CASE w \in {"A", "B"} -> change_value(s1, "st")
      [] w = "sel" -> _selector_changed(s1)
      [] w = "st" -> _inner_changed(s1)
      [] w = "cf" -> s1

\* w.on_change.emit(): the connected slots run in turn
on_change_emit(s, w) ==
    IF s.exc # NoExc THEN s
    ELSE slots(Log(s, w, "emit"), w)

\* ValueWidget.change_value, emitting before the indicator is refreshed
change_value_emit_first(s, w) ==
    _update_indicator(on_change_emit(_invalidate_value(s, w), w), w)

\* ValueWidget.change_value, emitting only outside a suppress_update region
change_value_batched(s, w) ==
    IF s._suppress_update[w]
    THEN _update_indicator(_invalidate_value(s, w), w)
    ELSE on_change_emit(_update_indicator(_invalidate_value(s, w), w), w)

\* ValueWidget.change_value
change_value(s, w) ==
    on_change_emit(_update_indicator(_invalidate_value(s, w), w), w)

(***************************************************************************)
(* The toolkit's controls: a setter emits its change signal only when the  *)
(* control's state changes, and the signal is connected to change_value.   *)
(***************************************************************************)
\* QLineEdit.setText of A.edit; textChanged is connected to A.change_value
setText(s, t) ==
    IF s.exc # NoExc \/ t = s.text THEN s
    ELSE change_value([s EXCEPT !.text = t], "A")

\* QCheckBox.setChecked of B.checkbox; toggled is connected to B.change_value
setChecked(s, v) ==
    IF s.exc # NoExc \/ v = s.checked THEN s
    ELSE change_value([s EXCEPT !.checked = v], "B")

\* QComboBox.setCurrentIndex of sel.combo_box; currentIndexChanged is connected to
\* sel.change_value
setCurrentIndex(s, i) ==
    IF s.exc # NoExc \/ i = s.comboIndex THEN s
    ELSE change_value([s EXCEPT !.comboIndex = i], "sel")

(***************************************************************************)
(* fill                                                                    *)
(***************************************************************************)
\* a Python bool among the fill keys
isinstance_bool(key) == key \in {"True", "False"}

\* LineEdit.fill
LineEdit_fill(s, v) == setText(s, v)

\* ValueCheckBox.fill, checking the box for false_val and clearing it for true_val
ValueCheckBox_fill_inverted(s, key) ==
    IF s.exc # NoExc THEN s
    ELSE IF key = true_val THEN setChecked(s, FALSE)
    ELSE IF key = false_val THEN setChecked(s, TRUE)
    ELSE IF isinstance_bool(key) THEN setChecked(s, key = "True")
    ELSE [s EXCEPT !.exc = ValueError]

\* ValueCheckBox.fill, clearing the box before it looks at the key
ValueCheckBox_fill_clearing(s, key) ==
    IF s.exc # NoExc THEN s
    ELSE IF key = true_val THEN setChecked(s, TRUE)
    ELSE IF key = false_val THEN setChecked(s, FALSE)
    ELSE IF isinstance_bool(key) THEN setChecked(s, key = "True")
    ELSE [setChecked(s, FALSE) EXCEPT !.exc = ValueError]

\* ValueCheckBox.fill
ValueCheckBox_fill(s, key) ==
    IF s.exc # NoExc THEN s
    ELSE IF key = true_val THEN setChecked(s, TRUE)
    ELSE IF key = false_val THEN setChecked(s, FALSE)
    ELSE IF isinstance_bool(key) THEN setChecked(s, key = "True")
    ELSE [s EXCEPT !.exc = ValueError]

\* ComboSelector.fill with an int
ComboSelector_fill_index(s, index) == setCurrentIndex(s, index)

\* ComboSelector.fill with a str: Selector.fill looks the name up in options
ComboSelector_fill_name(s, name) ==
    IF s.exc # NoExc THEN s
    ELSE IF \A i \in 1..Len(inners) : inners[i] # name THEN [s EXCEPT !.exc = KeyError]
    ELSE ComboSelector_fill_index(s, options(name))

\* a plain fill value, and StackedValueWidget.targeted_fill
plain(v) == [targeted |-> FALSE, option_name |-> "", value |-> v]
targeted_fill(n, v) == [targeted |-> TRUE, option_name |-> n, value |-> v]

\* w.fill(v) of an inner widget of the stack
inner_fill(s, w, v) ==
    IF w = "A" THEN LineEdit_fill(s, v) ELSE ValueCheckBox_fill(s, v)

\* StackedValueWidget.fill
fill_current(s1, v) ==
    IF s1.exc # NoExc THEN s1
    ELSE inner_fill(s1, current_subwidget(s1), v.value)

\* StackedValueWidget.fill, undoing the switch when the inner fill raises
StackedValueWidget_fill_atomic(s, v) ==
    LET r == fill_current(IF v.targeted THEN ComboSelector_fill_name(s, v.option_name) ELSE s, v)
    IN IF r.exc # NoExc THEN [s EXCEPT !.exc = r.exc, !.trace = r.trace] ELSE r

StackedValueWidget_fill(s, v) ==
    fill_current(IF v.targeted THEN ComboSelector_fill_name(s, v.option_name) ELSE s, v)

(***************************************************************************)
(* Plaintext printers and parsers                                          *)
(***************************************************************************)
PlaintextParseError == "PlaintextParseError"
PlaintextPrintError == "PlaintextPrintError"

\* the outcome of a printer or parser call
Ret(v) == [k |-> "return", v |-> v]
Exc(e) == [k |-> "raise", e |-> e]

\* Python's str and repr of a str
str(v) == v
repr(v) == "'" \o v \o "'"

\* the callables w.plaintext_printers() yields, as functions of the value printed
printer_calls(s, w, values) ==
    [i \in 1..Len(plaintext_printers(s, w)) |->
        [v \in values |->
            IF plaintext_printers(s, w)[i] = "str" THEN Ret(str(v)) ELSE Ret(repr(v))]]

\* ValueCheckBox.from_values: the loop over the printers, from the i-th on
RECURSIVE from_values_from(_, _, _, _, _)
from_values_from(printers, i, tv, fv, txt) ==
    IF i > Len(printers) THEN Exc(PlaintextParseError)
    ELSE IF printers[i][tv].k = "return" /\ printers[i][tv].v = txt THEN Ret(tv)
    ELSE IF printers[i][fv].k = "return" /\ printers[i][fv].v = txt THEN Ret(fv)
    ELSE from_values_from(printers, i + 1, tv, fv, txt)

\* ValueCheckBox.from_values, never asking the first printer
from_values_skip_first(printers, tv, fv, txt) == from_values_from(printers, 2, tv, fv, txt)

\* ValueCheckBox.from_values
from_values(printers, tv, fv, txt) == from_values_from(printers, 1, tv, fv, txt)

\* LineEdit.raw_text
raw_text(v) == Ret(v)

\* ValueWidget.plaintext_parsers: the class's inner parsers, raw_text of LineEdit and
\* from_values of ValueCheckBox; option_name is "" for a parser that is not wrapped
ValueWidget_plaintext_parsers(w) ==
    CASE w = "A" -> <<[option_name |-> "", owner |-> "A", func |-> "raw_text"]>>
      [] w = "B" -> <<[option_name |-> "", owner |-> "B", func |-> "from_values"]>>
      [] OTHER -> <<>>

\* parser_wrap of StackedValueWidget.plaintext_parsers, leaving the parser as it is
parser_wrap_untagged(option_name, parser) == parser

\* partial(parser_wrap, n, p) of StackedValueWidget.plaintext_parsers
parser_wrap(option_name, parser) == [parser EXCEPT !.option_name = option_name]

\* the loop over self.inners of StackedValueWidget.plaintext_parsers, from the i-th on
RECURSIVE wrapped_parsers(_, _)
wrapped_parsers(s, i) ==
    IF i > Len(inners) THEN <<>>
    ELSE IF inners[i] = current_subwidget(s) THEN wrapped_parsers(s, i + 1)
    ELSE [j \in 1..Len(ValueWidget_plaintext_parsers(inners[i])) |->
              parser_wrap(inners[i], ValueWidget_plaintext_parsers(inners[i])[j])]
         \o wrapped_parsers(s, i + 1)

\* w.plaintext_parsers()
plaintext_parsers(s, w) ==
    IF w = "st"
    THEN ValueWidget_plaintext_parsers(current_subwidget(s)) \o wrapped_parsers(s, 1)
    ELSE ValueWidget_plaintext_parsers(w)

\* the parser's own function called on the text
call_func(s, parser, txt) ==
    IF parser.func = "raw_text" THEN raw_text(txt)
    ELSE from_values(printer_calls(s, parser.owner, {true_val, false_val}),
                     true_val, false_val, txt)

\* parser(text): a wrapped parser returns targeted_fill(option_name, value)
tagged(parser, r) ==
    IF r.k = "raise" THEN r
    ELSE IF parser.option_name = "" THEN Ret(plain(r.v))
    ELSE Ret(targeted_fill(parser.option_name, r.v))

call_parser(s, parser, txt) == tagged(parser, call_func(s, parser, txt))

\* the step "fill(v) is called": logged under the option a targeted_fill names, under
\* the stacked widget for a plain value
filling(s, v) ==
    Log(s, IF v.targeted THEN v.option_name ELSE "st", "fill " \o v.value)

\* w.fill(parser(text)), an exception of the parser reaching the caller
fill_parsed(s, r) ==
    IF r.k = "raise" THEN [s EXCEPT !.exc = r.e]
    ELSE StackedValueWidget_fill(filling(s, r.v), r.v)

\* ValueWidget.suppress_update, up to its yield
suppress_update_enter(s, w) ==
    Log([s EXCEPT !._suppress_update[w] = TRUE], w, "suppress_enter")

\* ValueWidget.suppress_update, after its yield; the body's exception leaves the
\* generator at the yield and the rest does not run
suppress_update_exit(s, w, prev_value) ==
    IF s.exc # NoExc THEN s
    ELSE change_value(Log([s EXCEPT !._suppress_update[w] = prev_value],
                          w, "suppress_exit"), w)

\* the outcomes of st.auto_func()
auto_return(v) == [k |-> "return", v |-> v, msg |-> ""]
auto_raise(msg) == [k |-> "raise", v |-> plain(""), msg |-> msg]

\* ValueWidget._auto_btn_click of st, refreshing the value when auto_func raised DoNotFill
_auto_btn_click_refreshing(s, r) ==
    IF r.k = "raise"
    THEN change_value(IF r.msg # "" THEN Log(s, "st", "critical") ELSE s, "st")
    ELSE suppress_update_exit(
             StackedValueWidget_fill(filling(suppress_update_enter(s, "st"), r.v), r.v),
             "st", s._suppress_update["st"])

\* ValueWidget._auto_btn_click of st
_auto_btn_click(s, r) ==
    IF r.k = "raise"
    THEN IF r.msg # "" THEN Log(s, "st", "critical") ELSE s
    ELSE suppress_update_exit(
             StackedValueWidget_fill(filling(suppress_update_enter(s, "st"), r.v), r.v),
             "st", s._suppress_update["st"])

(***************************************************************************)
(* FidgetConfirmer                                                         *)
(***************************************************************************)
\* the tail of _ok_btn_clicked, closing whatever the value
close_always(s1) ==
    Log([s1 EXCEPT !.closed = TRUE], "cf", "close")

\* the tail of _ok_btn_clicked and _cancel_btn_clicked
close_if_ok(s1) ==
    IF is_ok(s1._value["cf"])
    THEN Log([s1 EXCEPT !.closed = TRUE], "cf", "close")
    ELSE Log(s1, "cf", "critical")

confirm(s) ==
    IF ~close_on_confirm \/ s.exc # NoExc THEN s
    ELSE close_if_ok(value(s, "cf"))

\* FidgetConfirmer._ok_btn_clicked, leaving cancel_flag as it is
_ok_btn_clicked_keeping_flag(s) ==
    confirm(change_value(s, "cf"))

\* FidgetConfirmer._ok_btn_clicked
_ok_btn_clicked(s) ==
    confirm(change_value([s EXCEPT !.cancel_flag = FALSE], "cf"))

\* FidgetConfirmer._cancel_btn_clicked
_cancel_btn_clicked(s) ==
    confirm(change_value([s EXCEPT !.cancel_flag = TRUE], "cf"))

\* FidgetConfirmer.closeEvent, never cancelling
closeEvent_no_cancel(s, spontaneous) ==
    Log([s EXCEPT !.closed = TRUE], "cf", "close")

\* FidgetConfirmer.closeEvent
closeEvent(s, spontaneous) ==
    Log([(IF spontaneous THEN change_value([s EXCEPT !.cancel_flag = TRUE], "cf") ELSE s)
            EXCEPT !.closed = TRUE],
        "cf", "close")

(***************************************************************************)
(* The state after construction                                            *)
(***************************************************************************)
NoRet == [w |-> "none", pv |-> Unset]

\* the fields as the constructors set them, before any init_ui
Raw ==
    [text |-> "", checked |-> FALSE, comboIndex |-> 0, stackedIndex |-> 0,
     cancel_flag |-> FALSE, ok_enabled |-> TRUE, closed |-> FALSE,
     _value |-> [w \in Widgets |-> Unset],
     _suppress_update |-> [w \in Widgets |-> FALSE],
     indicator |-> [w \in Widgets |-> ""],
     reloads |-> [w \in Widgets |-> 0],
     lastret |-> NoRet, trace |-> <<>>, exc |-> NoExc, cancel_value |-> cancel_value,
     raises |-> {}]

\* the init_ui calls in construction order: each setup_provided block ends with
\* _update_indicator, the combo box's first item selects index 0 (change_value of
\* sel, which has no slot connected yet), and FidgetConfirmer.__init__ ends with
\* _inner_changed
Constructed ==
    [_inner_changed(
         _update_indicator(
             _update_indicator(
                 _update_indicator(
                     _update_indicator(
                         _invalidate_value(_update_indicator(Raw, "A"), "sel"),
                         "sel"),
                     "B"),
                 "st"),
             "cf"))
     EXCEPT !.trace = <<>>]

\* no template has been declared
NoCall == [fn |-> "none"]
NoTemplates ==
    /\ heap = <<>>
    /\ templates = <<>>
    /\ sink = <<>>
    /\ made = <<>>
    /\ call = NoCall

InitAs(c) ==
    /\ text = c.text
    /\ checked = c.checked
    /\ comboIndex = c.comboIndex
    /\ stackedIndex = c.stackedIndex
    /\ cancel_flag = c.cancel_flag
    /\ ok_enabled = c.ok_enabled
    /\ closed = c.closed
    /\ _value = c._value
    /\ _suppress_update = c._suppress_update
    /\ indicator = c.indicator
    /\ reloads = c.reloads
    /\ lastret = c.lastret
    /\ trace = c.trace
    /\ exc = c.exc
    /\ op = "init"

Init == InitAs(Constructed) /\ NoTemplates

(***************************************************************************)
(* The actions: what a user or a caller of the widgets does                *)
(***************************************************************************)
\* the values a caller fills in, and those auto_func returns
FillValues == Texts
\* the keys a caller fills the checkbox with: values and Python bools
FillKeys == FillValues \cup {"True", "False"}
FillArgs == {plain(v) : v \in FillValues}
            \cup {targeted_fill(n, v) : n \in {"A", "B"}, v \in FillValues}
AutoResults == {auto_return(v) : v \in FillArgs} \cup {auto_raise(m) : m \in {"", "no"}}

\* the user types t into A
EditText(t) ==
    /\ t # text
    /\ Set(setText(St, t), "EditText")

\* the user toggles B
Toggle ==
    Set(setChecked(St, ~checked), "Toggle")

\* the user picks option i in the selector's combo box
Select(i) ==
    /\ i # comboIndex
    /\ Set(setCurrentIndex(St, i), "Select")

\* a caller fills the checkbox B
FillCheckBox(key) ==
    Set(ValueCheckBox_fill(St, key), "fill")

\* a caller fills the stacked widget
FillStacked(v) ==
    Set(StackedValueWidget_fill(St, v), "fill")

\* a caller parses text with the i-th parser the stacked widget offers and fills the
\* stacked widget with the result
FillParsed(i, t) ==
    /\ i \in 1..Len(plaintext_parsers(St, "st"))
    /\ Set(fill_parsed(St, call_parser(St, plaintext_parsers(St, "st")[i], t)), "fill_parsed")

\* the user clicks st's auto button and auto_func ends as r
AutoClick(r) ==
    Set(_auto_btn_click(St, r), "_auto_btn_click")

\* a caller reads w.value()
returned(s1, w) ==
    IF s1.exc = NoExc THEN [s1 EXCEPT !.lastret = [w |-> w, pv |-> s1._value[w]]]
    ELSE s1

ReadValue(w) ==
    Set(returned(value(St, w), w), "value")

\* a caller calls w.parse() and then w.validate() on what it returned
raised(p, w) ==
    IF p.k = "raise" THEN [p.s EXCEPT !.exc = p.e]
    ELSE [p.s EXCEPT !.exc = validate(p.s, w, p.v)]

DirectParse(w) ==
    Set(raised(parse(St, w), w), "parse")

\* the user clicks Ok (a disabled button takes no click)
OkClick ==
    /\ ~closed
    /\ ok_enabled
    /\ Set(_ok_btn_clicked(St), "_ok_btn_clicked")

\* a caller runs the slot itself, cf._ok_btn_clicked(), whatever the button's state
OkSlot ==
    /\ ~closed
    /\ Set(_ok_btn_clicked(St), "_ok_btn_clicked")

\* the user clicks Cancel, or presses Escape
CancelClick ==
    /\ make_cancel
    /\ ~closed
    /\ Set(_cancel_btn_clicked(St), "_cancel_btn_clicked")

\* the window is closed: by the user (spontaneous) or by the program
Close(spontaneous) ==
    /\ ~closed
    /\ Set(closeEvent(St, spontaneous), "closeEvent")

\* the program shows the confirmer again
Show ==
    /\ closed
    /\ Set([St EXCEPT !.closed = FALSE], "show")

Next ==
    \/ \E t \in Texts : EditText(t)
    \/ Toggle
    \/ \E i \in 0..(Len(inners) - 1) : Select(i)
    \/ \E key \in FillKeys : FillCheckBox(key)
    \/ \E v \in FillArgs : FillStacked(v)
    \/ \E i \in 1..Len(inners), t \in Texts : FillParsed(i, t)
    \/ \E r \in AutoResults : AutoClick(r)
    \/ \E w \in Widgets : ReadValue(w)
    \/ \E w \in Widgets : DirectParse(w)
    \/ OkClick
    \/ OkSlot
    \/ CancelClick
    \/ \E sp \in BOOLEAN : Close(sp)
    \/ Show

Spec == Init /\ [][Next]_vars

(***************************************************************************)
(* The template engine: python values, dicts and classes                   *)
(***************************************************************************)
\* the most templates a chain of template() calls holds
MaxChain == 3
\* the most templates handed to one extract_default call
MaxTemplates == 2
\* the most printers a checkbox's plaintext_printers() yields
MaxPrinters == 2
\* the longest text typed into a numeric editor, the named examples apart
MaxText == 3
\* the most inner templates a stacked widget is built from
MaxOptions == 3

\* python values: None, the booleans, the ints 1 (equal to True) and 0 (equal to False)
\* and a callable
None == "None"
PyTrue == "True"
PyFalse == "False"
PyOne == "1"
PyZero == "0"
PyFunc == "f"
TypeError == "TypeError"

\* a == b of python on these values
py_eq(a, b) == a = b \/ {a, b} = {PyTrue, PyOne} \/ {a, b} = {PyFalse, PyZero}

\* the default keys of extract_default, in order
keys == <<"make_plaintext", "make_indicator", "make_title", "auto_func">>
KeySet == {keys[i] : i \in DOMAIN keys}

\* a dict over these keys: Absent marks a key the dict does not hold
Absent == "absent"
EmptyDict == [k \in KeySet |-> Absent]
contains(d, k) == d[k] # Absent
get(d, k) == IF d[k] = Absent THEN None ELSE d[k]

\* {**d, **k}
merge(d, k) == [x \in KeySet |-> IF contains(k, x) THEN k[x] ELSE d[x]]

\* the widget classes templates are made of
Classes == {"ValueWidget", "LineEdit", "PlaintextEditWidget"}

\* getattr(cls, k.upper(), None): the class-level uppercase constants
getattr_upper(cls, k) ==
    CASE cls = "LineEdit" /\ k \in {"make_indicator", "make_title", "make_plaintext"} -> PyFalse
      [] cls = "PlaintextEditWidget" /\ k = "make_indicator" -> PyTrue
      [] cls = "PlaintextEditWidget" /\ k \in {"make_plaintext", "make_title"} -> PyFalse
      [] OTHER -> None

\* the keyword arguments and positional arguments callers pass
TemplateKwargs ==
    {EmptyDict, [EmptyDict EXCEPT !["auto_func"] = PyFunc]}
    \cup {[EmptyDict EXCEPT !["make_indicator"] = v] : v \in {None, PyTrue, PyFalse, PyOne}}
TemplateArgs == {<<>>, <<"title">>}

(***************************************************************************)
(* ValueWidgetTemplate                                                     *)
(***************************************************************************)
\* ValueWidgetTemplate.__init__: the object keeps the tuple and the dict it is given
ValueWidgetTemplate(cls, a, ref) == [widget_cls |-> cls, args |-> a, kwargs |-> ref]

\* ValueWidget.template (classmethod): **kwargs is a fresh dict
ValueWidget_template(h, cls, a, k) ==
    [heap |-> Append(h, k), ret |-> ValueWidgetTemplate(cls, a, Len(h) + 1)]

\* a template() that updates self.kwargs in place and shares it with the new template
template_in_place(h, t, a, k) ==
    [heap |-> [h EXCEPT ![t.kwargs] = merge(@, k)],
     ret |-> ValueWidgetTemplate(t.widget_cls, t.args \o a, t.kwargs)]

\* ValueWidgetTemplate.template
template(h, t, a, k) ==
    [heap |-> Append(h, merge(h[t.kwargs], k)),
     ret |-> ValueWidgetTemplate(t.widget_cls, t.args \o a, Len(h) + 1)]

\* the state a call of the template engine leaves
called(r, c) ==
    /\ heap' = r.heap
    /\ templates' = Append(templates, r.ret)
    /\ call' = [c EXCEPT !.ret = Len(templates) + 1]
    /\ UNCHANGED <<sink, made, wvars>>

\* a caller declares templates[i].template(*a, **k)
TemplateCall(i, a, k) ==
    /\ Len(templates) < MaxChain
    /\ called(template(heap, templates[i], a, k),
              [fn |-> "template", self |-> i, args |-> a, kwargs |-> k,
               heap |-> heap, templates |-> templates, ret |-> 0])

\* the first template of a chain: cls.template(*a, **k)
InitTemplate(cls, a, k) ==
    /\ heap = ValueWidget_template(<<>>, cls, a, k).heap
    /\ templates = <<ValueWidget_template(<<>>, cls, a, k).ret>>
    /\ sink = <<>>
    /\ made = <<>>
    /\ call = [fn |-> "ValueWidget.template", self |-> 0, args |-> a, kwargs |-> k,
               heap |-> <<>>, templates |-> <<>>, ret |-> 1]

InitTemplates ==
    /\ InitAs(Constructed)
    /\ \E cls \in Classes, a \in TemplateArgs, k \in TemplateKwargs : InitTemplate(cls, a, k)

NextTemplates ==
    \E i \in DOMAIN templates, a \in TemplateArgs, k \in TemplateKwargs : TemplateCall(i, a, k)

SpecTemplates == InitTemplates /\ [][NextTemplates]_vars

(***************************************************************************)
(* ValueWidgetTemplate.extract_default                                     *)
(***************************************************************************)
\* v of combine_key's loop body: t.kwargs.get(k), else the class's uppercase attribute
candidate(h, t, k) ==
    IF get(h[t.kwargs], k) # None THEN get(h[t.kwargs], k)
    ELSE getattr_upper(t.widget_cls, k)

RECURSIVE combine_key(_, _, _, _, _, _)

\* a loop body that never returns early: the last non-None candidate wins
combine_body_no_return(h, ts, k, union, i, ret, v) ==
    combine_key(h, ts, k, union, i + 1, IF v # None THEN v ELSE ret)

\* a loop body that returns the first candidate that is not None
combine_body_first_wins(h, ts, k, union, i, ret, v) ==
    IF v # None THEN [v |-> v, seen |-> i]
    ELSE combine_key(h, ts, k, union, i + 1, ret)

\* the body of combine_key's loop for template i, whose candidate is v
combine_body(h, ts, k, union, i, ret, v) ==
    IF v # None /\ py_eq(v, union) THEN [v |-> union, seen |-> i]
    ELSE combine_key(h, ts, k, union, i + 1, IF v # None THEN v ELSE ret)

\* combine_key from template i on: the value combined, and the templates looked at
combine_key(h, ts, k, union, i, ret) ==
    IF i > Len(ts) THEN [v |-> ret, seen |-> Len(ts)]
    ELSE combine_body(h, ts, k, union, i, ret, candidate(h, ts[i], k))

\* sink[k] = v unless v is None
put(s, k, c) ==
    [d |-> IF c.v # None THEN [s.d EXCEPT ![k] = c.v] ELSE s.d,
     seen |-> [s.seen EXCEPT ![k] = c.seen]]

\* the body of extract_default's loop over keys
extract_key(h, ts, s, upper_space, k, union) ==
    IF contains(s.d, k) \/ getattr_upper(upper_space, k) # None THEN s
    ELSE put(s, k, combine_key(h, ts, k, union, 1, None))

RECURSIVE extract_from(_, _, _, _, _, _, _)
extract_from(h, ts, s, upper_space, ks, union, j) ==
    IF j > Len(ks) THEN s
    ELSE extract_from(h, ts, extract_key(h, ts, s, upper_space, ks[j], union),
                      upper_space, ks, union, j + 1)

\* extract_default(*ts, sink = d, upper_space, keys = ks, union): the sink it leaves,
\* and for each key the number of templates combine_key looked at
extract_default(h, ts, d, upper_space, ks, union) ==
    extract_from(h, ts, [d |-> d, seen |-> [k \in KeySet |-> 0]], upper_space, ks, union, 1)

\* the sinks callers pass: the keyword arguments of a constructor
Sinks ==
    {EmptyDict, [EmptyDict EXCEPT !["make_indicator"] = None],
     [EmptyDict EXCEPT !["make_title"] = PyFalse]}
Booleans == {PyTrue, PyFalse}

extracted(r) ==
    /\ sink' = r.d
    /\ call' = [call EXCEPT !.done = TRUE, !.seen = r.seen]
    /\ UNCHANGED <<heap, templates, made, wvars>>

\* the pending call runs
ExtractDefault ==
    /\ call.fn = "extract_default"
    /\ ~call.done
    /\ extracted(extract_default(heap, templates, sink, call.upper_space, keys, call.union))

\* the templates, the sink, the namespace and the polarity of the call
InitExtract ==
    /\ InitAs(Constructed)
    /\ made = <<>>
    /\ \E n \in 0..MaxTemplates :
           \E cs \in [1..n -> Classes], ds \in [1..n -> TemplateKwargs] :
               /\ heap = [i \in 1..n |-> ds[i]]
               /\ templates = [i \in 1..n |-> ValueWidgetTemplate(cs[i], <<>>, i)]
    /\ sink \in Sinks
    /\ \E u \in Classes, p \in Booleans :
           call = [fn |-> "extract_default", upper_space |-> u, union |-> p, sink |-> sink,
                   done |-> FALSE, seen |-> [k \in KeySet |-> 0]]

SpecExtract == InitExtract /\ [][ExtractDefault]_vars

(***************************************************************************)
(* first_valid and ValueWidget.__init__                                    *)
(***************************************************************************)
\* the values that are truthy
first_truthy(values) ==
    IF SelectSeq(values, LAMBDA a : a \notin {None, PyFalse}) = <<>>
    THEN [k |-> "raise", v |-> None, e |-> TypeError]
    ELSE [k |-> "return", v |-> Head(SelectSeq(values, LAMBDA a : a \notin {None, PyFalse})),
          e |-> NoExc]

\* first_valid(**kwargs), values being kwargs.values() in order
first_valid(values) ==
    IF SelectSeq(values, LAMBDA a : a # None) = <<>>
    THEN [k |-> "raise", v |-> None, e |-> TypeError]
    ELSE [k |-> "return", v |-> Head(SelectSeq(values, LAMBDA a : a # None)), e |-> NoExc]

\* self.field = r, unless an earlier statement of __init__ raised
assign(self, field, r) ==
    IF self.exc # NoExc THEN self
    ELSE IF r.k = "raise" THEN [self EXCEPT !.exc = r.e]
    ELSE [self EXCEPT ![field] = r.v]

\* a widget before __init__ has set a field
NewSelf == [make_title |-> None, make_indicator |-> None, make_plaintext |-> None, exc |-> NoExc]

\* the make_title / make_indicator / make_plaintext statements of ValueWidget.__init__
ValueWidget_init(cls, kw) ==
    assign(
        assign(
            assign(NewSelf, "make_title",
                   first_valid(<<get(kw, "make_title"), getattr_upper(cls, "make_title")>>)),
            "make_indicator",
            first_valid(<<get(kw, "make_indicator"), getattr_upper(cls, "make_indicator")>>)),
        "make_plaintext",
        first_valid(<<get(kw, "make_plaintext"), getattr_upper(cls, "make_plaintext")>>))

\* the keyword arguments of a constructor call
InitKwargs ==
    {[k \in KeySet |-> IF k = "auto_func" THEN Absent ELSE f[k]] :
        f \in [{"make_title", "make_indicator", "make_plaintext"} -> {Absent, None, PyTrue, PyFalse}]}

\* the pending constructor call runs
Construct ==
    /\ call.fn = "__init__"
    /\ ~call.done
    /\ made' = ValueWidget_init(call.cls, call.kwargs)
    /\ call' = [call EXCEPT !.done = TRUE]
    /\ UNCHANGED <<heap, templates, sink, wvars>>

InitConstruct ==
    /\ InitAs(Constructed)
    /\ heap = <<>>
    /\ templates = <<>>
    /\ sink = <<>>
    /\ made = NewSelf
    /\ \E cls \in Classes, kw \in InitKwargs :
           call = [fn |-> "__init__", cls |-> cls, kwargs |-> kw, done |-> FALSE]

SpecConstruct == InitConstruct /\ [][Construct]_vars

(***************************************************************************)
(* ValueCheckBox.from_values over any printers and any value_selector      *)
(***************************************************************************)
\* the values a value_selector maps to, the texts printers print, the texts parsed
SelectorValues == {"a", "b"}
PrintedTexts == {"x", "y"}
ParsedTexts == PrintedTexts \cup {"z"}

\* a printer: for each value the text it returns, or PlaintextPrintError
Printers ==
    [SelectorValues -> {Ret(t) : t \in PrintedTexts} \cup {Exc(PlaintextPrintError)}]

\* the pending call runs
FromValues ==
    /\ call.fn = "from_values"
    /\ ~call.done
    /\ call' = [call EXCEPT !.done = TRUE,
                            !.ret = from_values(call.printers, call.true_val,
                                                call.false_val, call.text)]
    /\ UNCHANGED <<heap, templates, sink, made, wvars>>

\* the checkbox's printers and value_selector, and the text parsed
InitFromValues ==
    /\ InitAs(Constructed)
    /\ heap = <<>>
    /\ templates = <<>>
    /\ sink = <<>>
    /\ made = <<>>
    /\ \E n \in 0..MaxPrinters :
           \E ps \in [1..n -> Printers], tv \in SelectorValues, fv \in SelectorValues,
              t \in ParsedTexts :
               call = [fn |-> "from_values", printers |-> ps, true_val |-> tv,
                       false_val |-> fv, text |-> t, done |-> FALSE, ret |-> Ret(None)]

SpecFromValues == InitFromValues /\ [][FromValues]_vars

(***************************************************************************)
(* The numeric editors: SimpleEdit, IntEdit, FloatEdit.  A text is a       *)
(* sequence of characters; a float is the fraction <<numerator,            *)
(* denominator>> in lowest terms.                                          *)
(***************************************************************************)
Chars == {"0", "1", "2", "3", "4", "5", "x", "A", "a", "b", "c", ".", "%", "/"}
Examples ==
    {<<"0", "x", "1", "A">>, <<"1", "2", ".", "5", "%">>, <<"3", "/", "4">>,
     <<"a", "b", "c">>, <<"1", "2", ".", "5">>, <<"1", "0", "/", "4", "0">>}
NumericTexts == UNION {[1..n -> Chars] : n \in 0..MaxText} \cup Examples

\* the value of a character as a digit; 99 for a character that is no digit
digit(c) ==
    CASE c = "0" -> 0 [] c = "1" -> 1 [] c = "2" -> 2 [] c = "3" -> 3 [] c = "4" -> 4
      [] c = "5" -> 5 [] c \in {"a", "A"} -> 10 [] c = "b" -> 11 [] c = "c" -> 12
      [] OTHER -> 99

digits(t, base) == Len(t) > 0 /\ \A i \in DOMAIN t : digit(t[i]) < base

RECURSIVE number(_, _)
number(t, base) ==
    IF t = <<>> THEN 0
    ELSE number(SubSeq(t, 1, Len(t) - 1), base) * base + digit(t[Len(t)])

Tail2(t) == SubSeq(t, 3, Len(t))

\* int(t, base=0): a prefixed literal, or a decimal one without leading zeros
int_base0(t) ==
    IF Len(t) >= 2 /\ t[1] = "0" /\ t[2] = "x"
    THEN IF digits(Tail2(t), 16) THEN Ret(number(Tail2(t), 16)) ELSE Exc(ValueError)
    ELSE IF Len(t) >= 2 /\ t[1] = "0" /\ t[2] = "b"
    THEN IF digits(Tail2(t), 2) THEN Ret(number(Tail2(t), 2)) ELSE Exc(ValueError)
    ELSE IF digits(t, 10) /\ (t[1] # "0" \/ number(t, 10) = 0)
    THEN Ret(number(t, 10))
    ELSE Exc(ValueError)

RECURSIVE gcd(_, _)
gcd(a, b) == IF b = 0 THEN a ELSE gcd(b, a % b)

RECURSIVE pow10(_)
pow10(n) == IF n = 0 THEN 1 ELSE 10 * pow10(n - 1)

\* n / d as a float
fraction(n, d) == IF n = 0 THEN <<0, 1>> ELSE <<n \div gcd(n, d), d \div gcd(n, d)>>
divide(x, y) == fraction(x[1] * y[2], x[2] * y[1])

\* the position of the first "." of t, Len(t) + 1 when there is none
dot(t) ==
    IF \E i \in DOMAIN t : t[i] = "."
    THEN CHOOSE i \in DOMAIN t : t[i] = "." /\ \A j \in 1..(i - 1) : t[j] # "."
    ELSE Len(t) + 1

whole(t) == SubSeq(t, 1, dot(t) - 1)
decimals(t) == SubSeq(t, dot(t) + 1, Len(t))

\* float(t): digits with at most one ".", at least one digit in all
float(t) ==
    IF /\ \A i \in DOMAIN t : t[i] = "." \/ digit(t[i]) < 10
       /\ \A i \in DOMAIN decimals(t) : decimals(t)[i] # "."
       /\ Len(whole(t)) + Len(decimals(t)) > 0
    THEN Ret(fraction(number(whole(t) \o decimals(t), 10), pow10(Len(decimals(t)))))
    ELSE Exc(ValueError)

\* exc_wrap(to_raise)(exc_cls, func), applied to the outcome r of func
exc_wrap(to_raise, exc_cls, r) ==
    IF r.k = "raise" /\ r.e = exc_cls THEN Exc(to_raise) ELSE r

\* wrap_plaintext_parser(exc_cls, func)
wrap_plaintext_parser(exc_cls, r) == exc_wrap(PlaintextParseError, exc_cls, r)

\* the divisor of FloatEdit.percentage
Hundred == <<100, 1>>

\* the group m[1] of FloatEdit.percentage's pattern, ([0-9]*(\.[0-9]+)?)%, on a full
\* match: digits, then possibly a "." followed by at least one digit
percent_group(t) == SubSeq(t, 1, Len(t) - 1)
percent_match(t) ==
    /\ Len(t) >= 1
    /\ t[Len(t)] = "%"
    /\ \A i \in DOMAIN whole(percent_group(t)) : digit(percent_group(t)[i]) < 10
    /\ dot(percent_group(t)) <= Len(percent_group(t)) => digits(decimals(percent_group(t)), 10)

slash(t) == CHOOSE i \in DOMAIN t : t[i] = "/"
num(t) == SubSeq(t, 1, slash(t) - 1)
den(t) == SubSeq(t, slash(t) + 1, Len(t))

\* FloatEdit.ratio's pattern, [0-9]+\s*/\s*[1-9][0-9]*, on a full match
ratio_match(t) ==
    /\ \E i \in DOMAIN t : t[i] = "/"
    /\ digits(num(t), 10)
    /\ digits(den(t), 10)
    /\ den(t)[1] # "0"

\* float(m[1]) / 100 and float(n) / float(d), from the outcomes of the float() calls
quotient(x, y) ==
    IF x.k = "raise" THEN x ELSE IF y.k = "raise" THEN y ELSE Ret(divide(x.v, y.v))

\* FloatEdit.percentage, not dividing by 100
percentage_unscaled(t) ==
    IF ~percent_match(t) THEN Exc(PlaintextParseError)
    ELSE exc_wrap(PlaintextParseError, ValueError, float(percent_group(t)))

\* FloatEdit.percentage
percentage(t) ==
    IF ~percent_match(t) THEN Exc(PlaintextParseError)
    ELSE exc_wrap(PlaintextParseError, ValueError,
                  quotient(float(percent_group(t)), Ret(Hundred)))

\* FloatEdit.ratio
ratio(t) ==
    IF ~ratio_match(t) THEN Exc(PlaintextParseError)
    ELSE exc_wrap(PlaintextParseError, ValueError, quotient(float(num(t)), float(den(t))))

\* the parsers __init_subclass__ finds in the class: SimpleEdit._func, inherited by
\* IntEdit; FloatEdit._func, percentage and ratio
NumericEditors == {"IntEdit", "FloatEdit"}
numeric_parsers(cls) ==
    IF cls = "IntEdit" THEN <<"SimpleEdit._func">>
    ELSE <<"FloatEdit._func", "percentage", "ratio">>

numeric_parser(name, t) ==
    CASE name = "SimpleEdit._func" -> wrap_plaintext_parser(ValueError, int_base0(t))
      [] name = "FloatEdit._func" -> wrap_plaintext_parser(ValueError, float(t))
      [] name = "percentage" -> percentage(t)
      [] name = "ratio" -> ratio(t)

\* join_parsers: the first parser that returns, PlaintextParseError when none does
RECURSIVE join_parsers(_, _, _)
join_parsers(parsers, i, t) ==
    IF i > Len(parsers) THEN Exc(PlaintextParseError)
    ELSE IF numeric_parser(parsers[i], t).k = "return" THEN numeric_parser(parsers[i], t)
    ELSE IF numeric_parser(parsers[i], t).e # PlaintextParseError
    THEN numeric_parser(parsers[i], t)
    ELSE join_parsers(parsers, i + 1, t)

\* SimpleEdit.convert without its except clause
SimpleEdit_convert_uncaught(cls, v) == join_parsers(numeric_parsers(cls), 1, v)

\* SimpleEdit.convert
SimpleEdit_convert(cls, v) ==
    exc_wrap(ParseError, PlaintextParseError, join_parsers(numeric_parsers(cls), 1, v))

\* ConverterWidget.parse: the inner line edit's text, converted
ConverterWidget_parse(cls, t) == SimpleEdit_convert(cls, t)

\* ValueWidget._reload_value on the outcome r of parse(), no validation_func given
reloaded(r) ==
    IF r.k = "return" THEN [pv |-> from_value(r.v), exc |-> NoExc]
    ELSE IF r.e \in Caught THEN [pv |-> from_error(r.e), exc |-> NoExc]
    ELSE [pv |-> Unset, exc |-> r.e]

\* the pending value() call of the editor runs
NumericValue ==
    /\ call.fn = "value"
    /\ ~call.done
    /\ call' = [call EXCEPT !.done = TRUE,
                            !.ret = reloaded(ConverterWidget_parse(call.cls, call.text)).pv,
                            !.exc = reloaded(ConverterWidget_parse(call.cls, call.text)).exc]
    /\ UNCHANGED <<heap, templates, sink, made, wvars>>

\* an editor holding a text
InitNumeric ==
    /\ InitAs(Constructed)
    /\ heap = <<>>
    /\ templates = <<>>
    /\ sink = <<>>
    /\ made = <<>>
    /\ \E cls \in NumericEditors, t \in NumericTexts :
           call = [fn |-> "value", cls |-> cls, text |-> t, done |-> FALSE,
                   ret |-> Unset, exc |-> NoExc]

SpecNumeric == InitNumeric /\ [][NumericValue]_vars

(***************************************************************************)
(* ValueWidget.__init_subclass__: the decorated parsers and printers of a  *)
(* chain of classes, each extending the one before, the first extending    *)
(* ValueWidget                                                             *)
(***************************************************************************)
Hierarchy == <<"A", "B">>
Decorated == {"p", "q"}

\* the decorated functions a class body declares, in the order of cls.__dict__
Declarations ==
    {<<>>} \cup {<<n>> : n \in Decorated}
           \cup {d \in Decorated \X Decorated : d[1] # d[2]}

\* the class attribute __init_subclass__ assigns when the class declares something:
\* a function yielding the class's own declarations
own_attribute(declared) == [assigned |-> declared # <<>>, yields |-> declared]

RECURSIVE getattr_inner(_, _, _)

\* cls._inner_plaintext_parsers / _inner_plaintext_printers of the i-th class, looked
\* up along the classes it extends; ValueWidget's own yields nothing
getattr_inner(attrs, i, kind) ==
    IF i = 0 THEN <<>>
    ELSE IF attrs[i][kind].assigned THEN attrs[i][kind].yields
    ELSE getattr_inner(attrs, i - 1, kind)

\* ValueWidget.plaintext_parsers and plaintext_printers of an instance of the i-th class
instance_parsers(attrs, i) == getattr_inner(attrs, i, "parsers")
instance_printers(attrs, i) == getattr_inner(attrs, i, "printers") \o <<"str", "repr">>

\* ValueWidget.__init_subclass__ of the class declaring d
init_subclass(d) ==
    [parsers |-> own_attribute(d.parsers), printers |-> own_attribute(d.printers)]

\* the next class statement of the chain runs
DefineClass ==
    /\ call.fn = "__init_subclass__"
    /\ Len(call.attrs) < Len(Hierarchy)
    /\ call' = [call EXCEPT
                   !.attrs = Append(@, init_subclass(call.declared[Len(call.attrs) + 1]))]
    /\ UNCHANGED <<heap, templates, sink, made, wvars>>

\* what the class bodies declare
InitSubclass ==
    /\ InitAs(Constructed)
    /\ heap = <<>>
    /\ templates = <<>>
    /\ sink = <<>>
    /\ made = <<>>
    /\ \E d \in [1..Len(Hierarchy) -> [parsers : Declarations, printers : Declarations]] :
           call = [fn |-> "__init_subclass__", declared |-> d, attrs |-> <<>>]

SpecSubclass == InitSubclass /\ [][DefineClass]_vars

(***************************************************************************)
(* PlaintextEditWidget: the plaintext dialog of the stacked widget st, the *)
(* dialog's fields held in call                                            *)
(***************************************************************************)
AttributeError == "AttributeError"
NO_CURRENT_VALUE == "NO_CURRENT_VALUE"

\* PlaintextEditWidget.__init__ and init_ui: no owner, empty combo boxes, both buttons
\* enabled, nothing cached
PlaintextEditWidget ==
    [fn |-> "PlaintextEditWidget", owner |-> None, current_value |-> NO_CURRENT_VALUE,
     print_visible |-> TRUE, print_combo |-> <<>>, print_index |-> -1,
     parse_visible |-> TRUE, parse_combo |-> <<>>, parse_index |-> -1, parse_edit |-> "",
     visible |-> FALSE, _value |-> Unset, indicator |-> "", ok_enabled |-> TRUE,
     critical |-> "", parsed |-> Unset]

\* the dialog as a handler finds it: no message box shown and no value read yet
entered(d) == [d EXCEPT !.critical = "", !.parsed = Unset]

\* owner.joined_plaintext_parser: the owner's parsers tried in order, from the i-th on
RECURSIVE joined_plaintext_parser(_, _, _, _)
joined_plaintext_parser(s, w, i, txt) ==
    IF i > Len(plaintext_parsers(s, w)) THEN Exc(PlaintextParseError)
    ELSE IF call_parser(s, plaintext_parsers(s, w)[i], txt).k = "return"
    THEN call_parser(s, plaintext_parsers(s, w)[i], txt)
    ELSE joined_plaintext_parser(s, w, i + 1, txt)

\* the '<all>' item of a combo box
all_item(w) == [option_name |-> "", owner |-> w, func |-> "<all>"]

\* the name an item is listed under: parser.__name__, n + ': ' + p.__name__ when wrapped
item_name(item) ==
    IF item.option_name = "" THEN item.func ELSE item.option_name \o ": " \o item.func

\* parser(self.parse_edit.toPlainText()) for the current data of parse_combo
currentData_call(s, item, txt) ==
    IF item.func = "<all>" THEN joined_plaintext_parser(s, item.owner, 1, txt)
    ELSE call_parser(s, item, txt)

\* PlaintextEditWidget.parse
PlaintextEditWidget_parse(s, d) ==
    IF d.parse_index = -1 THEN Exc(ParseError)
    ELSE IF currentData_call(s, d.parse_combo[d.parse_index + 1], d.parse_edit).k = "return"
    THEN currentData_call(s, d.parse_combo[d.parse_index + 1], d.parse_edit)
    ELSE IF currentData_call(s, d.parse_combo[d.parse_index + 1], d.parse_edit).e
                = PlaintextParseError
    THEN Exc(ParseError)
    ELSE currentData_call(s, d.parse_combo[d.parse_index + 1], d.parse_edit)

\* ParsedValue of the outcome of parse(); the dialog has no validation_func
parsed_value(r) == IF r.k = "return" THEN from_value(r.v) ELSE from_error(r.e)

\* the dialog's value(): the cached value, reloaded when there is none
dialog_value(s, d) ==
    IF d._value = Unset THEN [d EXCEPT !._value = parsed_value(PlaintextEditWidget_parse(s, d))]
    ELSE d

\* PlaintextEditWidget._on_value_change
_on_value_change(s, d) ==
    [dialog_value(s, d) EXCEPT !.ok_enabled = is_ok(dialog_value(s, d)._value)]

\* the dialog's _update_indicator
dialog_update_indicator(s, d) ==
    [dialog_value(s, d) EXCEPT
        !.indicator = IF is_ok(dialog_value(s, d)._value) THEN "OK" ELSE "ERR"]

\* the dialog's change_value: _invalidate_value, _update_indicator, on_change.emit
dialog_change_value(s, d) ==
    _on_value_change(s, dialog_update_indicator(s, [d EXCEPT !._value = Unset]))

\* the index prep_for_show selects: 0 when clearing, else the current one, 0 for -1
combo_index(clear, current) == IF clear \/ current = -1 THEN 0 ELSE current

\* the items prep_for_show adds to a combo box
combo_items(w, adapters) ==
    IF Len(adapters) > 1 THEN <<all_item(w)>> \o adapters ELSE adapters

\* QComboBox.setCurrentIndex after the items were added
shown_index(items, i) == IF i < Len(items) THEN i ELSE -1

\* prep_for_show: the print side, owner_value being owner.value()
prep_print(d, owner_value, printers, clear_print) ==
    IF ~is_ok(owner_value) THEN [d EXCEPT !.print_visible = FALSE]
    ELSE [d EXCEPT !.current_value = owner_value.value,
                   !.print_visible = TRUE,
                   !.print_combo = combo_items(d.owner, printers),
                   !.print_index = shown_index(combo_items(d.owner, printers),
                                               combo_index(clear_print, d.print_index))]

\* prep_for_show: the parse side
prep_parse(d, parsers, clear_parse) ==
    IF parsers = <<>> THEN [d EXCEPT !.parse_visible = FALSE]
    ELSE [d EXCEPT !.parse_visible = TRUE,
                   !.parse_edit = IF clear_parse THEN "" ELSE @,
                   !.parse_combo = combo_items(d.owner, parsers),
                   !.parse_index = shown_index(combo_items(d.owner, parsers),
                                               combo_index(clear_parse, d.parse_index))]

\* the printers of the owner as combo items
printer_items(s, w) ==
    [i \in 1..Len(plaintext_printers(s, w)) |->
        [option_name |-> "", owner |-> w, func |-> plaintext_printers(s, w)[i]]]

\* PlaintextEditWidget.prep_for_show, from owner.value() on; s holds the owner after
\* its value() ran
prep_with_owner(s, d, clear_parse, clear_print) ==
    IF s.exc # NoExc THEN [s |-> s, d |-> d]
    ELSE [s |-> s,
          d |-> dialog_change_value(
                    s, prep_parse(prep_print(d, s._value[d.owner],
                                             printer_items(s, d.owner), clear_print),
                                  plaintext_parsers(s, d.owner), clear_parse))]

\* PlaintextEditWidget.prep_for_show: self.owner.title raises when no owner is set
prep_for_show(s, d, clear_parse, clear_print) ==
    IF s.exc # NoExc THEN [s |-> s, d |-> d]
    ELSE IF d.owner = None THEN [s |-> [s EXCEPT !.exc = AttributeError], d |-> d]
    ELSE prep_with_owner(value(s, d.owner), d, clear_parse, clear_print)

\* QWidget.show and QWidget.close of the dialog
show(r) == IF r.s.exc # NoExc THEN r ELSE [r EXCEPT !.d.visible = TRUE]
close(r) == IF r.s.exc # NoExc THEN r ELSE [r EXCEPT !.d.visible = FALSE]

\* ValueWidget._plaintext_btn_click of st
_plaintext_btn_click(s, d) == show(prep_for_show(s, d, TRUE, TRUE))

\* self.result_value: neither PlaintextEditWidget nor a base class has the attribute
result_value(d) == Exc(AttributeError)

\* QMessageBox.critical(self, 'error parsing plaintext', error_details(self.result_value))
critical_details(s, d) ==
    IF result_value(d).k = "raise" THEN [s |-> [s EXCEPT !.exc = result_value(d).e], d |-> d]
    ELSE [s |-> s, d |-> [d EXCEPT !.critical = "error parsing plaintext"]]

\* self.owner.fill with the text of parse_edit as it stands
owner_fill_text(s, d, v) ==
    IF d.owner = None THEN [s |-> [s EXCEPT !.exc = AttributeError], d |-> d]
    ELSE [s |-> StackedValueWidget_fill(filling(s, plain(d.parse_edit)), plain(d.parse_edit)),
          d |-> d]

\* self.owner.fill(parsed.value), v being parsed.value
owner_fill(s, d, v) ==
    IF d.owner = None THEN [s |-> [s EXCEPT !.exc = AttributeError], d |-> d]
    ELSE [s |-> StackedValueWidget_fill(filling(s, v), v), d |-> d]

\* PlaintextEditWidget.commit_parse, d.parsed being the value() it read
commit_parse(s, d) ==
    IF ~is_ok(d.parsed) THEN critical_details(s, d)
    ELSE close(owner_fill(s, d, d.parsed.value))

\* the rest of apply_parse once owner.fill ran
apply_prep(r) ==
    IF r.s.exc # NoExc THEN r ELSE prep_for_show(r.s, r.d, FALSE, FALSE)

\* PlaintextEditWidget.apply_parse, d.parsed being the value() it read
apply_parse(s, d) ==
    IF ~is_ok(d.parsed) THEN critical_details(s, d)
    ELSE apply_prep(owner_fill(s, d, d.parsed.value))

\* parsed = self.value(), the first statement of commit_parse and apply_parse
reading(s, d) ==
    [dialog_value(s, entered(d)) EXCEPT !.parsed = dialog_value(s, entered(d))._value]

\* a handler of the dialog ends: the widgets and the dialog as it leaves them
SetDialog(r, name) ==
    /\ Assign(r.s, name)
    /\ call' = r.d
    /\ UNCHANGED <<heap, templates, sink, made>>

\* client code assigns the dialog's owner attribute
BindOwner ==
    /\ call.owner = None
    /\ SetDialog([s |-> St, d |-> [entered(call) EXCEPT !.owner = "st"]], "owner")

\* the user clicks st's 'text' button
PlaintextClick ==
    /\ ~call.visible
    /\ SetDialog(_plaintext_btn_click(St, entered(call)), "_plaintext_btn_click")

\* the user types t into parse_edit; textChanged is connected to change_value
DialogEdit(t) ==
    /\ call.visible
    /\ t # call.parse_edit
    /\ SetDialog([s |-> St,
                  d |-> dialog_change_value(St, [entered(call) EXCEPT !.parse_edit = t])],
                 "parse_edit")

\* the user picks item i of parse_combo; currentIndexChanged is connected to change_value
DialogSelect(i) ==
    /\ call.visible
    /\ i < Len(call.parse_combo)
    /\ i # call.parse_index
    /\ SetDialog([s |-> St,
                  d |-> dialog_change_value(St, [entered(call) EXCEPT !.parse_index = i])],
                 "parse_combo")

\* commit_parse runs: the OK button, Shift+Enter, or a call
CommitParse ==
    SetDialog(commit_parse(St, reading(St, call)), "commit_parse")

\* apply_parse runs: the apply button or a call
ApplyParse ==
    SetDialog(apply_parse(St, reading(St, call)), "apply_parse")

\* the user closes the dialog
DialogClose ==
    /\ call.visible
    /\ SetDialog([s |-> St, d |-> [entered(call) EXCEPT !.visible = FALSE]], "close")

InitPlaintext ==
    /\ InitAs(Constructed)
    /\ heap = <<>>
    /\ templates = <<>>
    /\ sink = <<>>
    /\ made = <<>>
    /\ call = PlaintextEditWidget

\* the dialog is window modal: the widgets are used while it is closed
NextPlaintext ==
    \/ BindOwner
    \/ PlaintextClick
    \/ \E t \in Texts : DialogEdit(t)
    \/ \E i \in 0..Len(inners) : DialogSelect(i)
    \/ CommitParse
    \/ ApplyParse
    \/ DialogClose
    \/ \E t \in Texts : ~call.visible /\ EditText(t)
    \/ ~call.visible /\ Toggle
    \/ \E i \in 0..(Len(inners) - 1) : ~call.visible /\ Select(i)

SpecPlaintext == InitPlaintext /\ [][NextPlaintext]_vars

(***************************************************************************)
(* ValueWidget._reload_value with the details of the value: parse(),       *)
(* validate() and the joined printer over any printers                     *)
(***************************************************************************)
\* error_details of an exception raised without arguments and without a cause
error_details(e) == e \o ": "

\* join_printers: the printers tried in order from the i-th on, the first text returned;
\* PlaintextPrintError when every one of them raised
RECURSIVE join_printers(_, _, _)
join_printers(printers, i, v) ==
    IF i > Len(printers) THEN Exc(PlaintextPrintError)
    ELSE IF printers[i][v].k = "return" THEN printers[i][v]
    ELSE join_printers(printers, i + 1, v)

\* ParsedValue.from_value(value, details)
from_value_details(v, details) == [state |-> "ok", value |-> v, details |-> details]

\* the second try statement of _reload_value, r being self.joined_plaintext_printer(value)
details_of(r) ==
    IF r.k = "return" THEN r.v
    ELSE "details could not be loaded because of a parser error:\n" \o error_details(r.e)

\* _reload_value with the printer's exception caught as parse()'s and validate()'s are
reload_print_error(p, e, printers) ==
    IF p.k = "raise" THEN from_error(p.e)
    ELSE IF e # NoExc THEN from_error(e)
    ELSE IF join_printers(printers, 1, p.v).k = "raise"
    THEN from_error(join_printers(printers, 1, p.v).e)
    ELSE from_value_details(p.v, join_printers(printers, 1, p.v).v)

\* _reload_value: p the outcome of parse(), e what validate() raised
reload(p, e, printers) ==
    IF p.k = "raise" THEN from_error(p.e)
    ELSE IF e # NoExc THEN from_error(e)
    ELSE from_value_details(p.v, details_of(join_printers(printers, 1, p.v)))

\* the pending value() call runs
ReloadValue ==
    /\ call.fn = "_reload_value"
    /\ ~call.done
    /\ call' = [call EXCEPT !.done = TRUE,
                            !._value = reload(call.parse, call.validate, call.printers)]
    /\ UNCHANGED <<heap, templates, sink, made, wvars>>

\* a widget with printers, about to reload: what parse() and validate() will do
InitDetails ==
    /\ InitAs(Constructed)
    /\ heap = <<>>
    /\ templates = <<>>
    /\ sink = <<>>
    /\ made = <<>>
    /\ \E n \in 1..MaxPrinters :
           \E ps \in [1..n -> Printers],
              p \in {Ret(v) : v \in SelectorValues} \cup {Exc(ParseError)},
              e \in {NoExc, ValidationErrorFunc} :
               call = [fn |-> "_reload_value", printers |-> ps, parse |-> p, validate |-> e,
                       done |-> FALSE, _value |-> Unset]

SpecDetails == InitDetails /\ [][ReloadValue]_vars

(***************************************************************************)
(* StackedValueWidget.CheckBoxSelector and the stacked widget built on it  *)
(***************************************************************************)
\* the names of the inner templates
OptionNames == {"one", "two", "three", "four"}

\* dict.setdefault(name, len(options)) on a dict kept as the sequence of its keys
index_of(opts, name) == CHOOSE i \in DOMAIN opts : opts[i] = name
has_option(opts, name) == \E i \in DOMAIN opts : opts[i] = name

\* CheckBoxSelector.__init__ and init_ui, inside an empty stacked widget
CheckBoxSelector ==
    [fn |-> "CheckBoxSelector", options |-> <<>>, value_count |-> 0, checked |-> FALSE,
     check_text |-> "", inners |-> <<>>, built |-> FALSE, exc |-> NoExc, last |-> "__init__"]

\* Selector.add_option
Selector_add_option(c, name) ==
    IF c.exc # NoExc THEN c
    ELSE IF has_option(c.options, name) THEN [c EXCEPT !.exc = ValueError]
    ELSE [c EXCEPT !.options = Append(@, name)]

\* CheckBoxSelector.add_option; no statement assigns value_count after __init__
add_option(c, name) ==
    IF c.value_count >= 2 THEN [c EXCEPT !.exc = "Exception"]
    ELSE Selector_add_option(IF c.value_count = 1 THEN [c EXCEPT !.check_text = name]
                             ELSE [c EXCEPT !.checked = FALSE],
                             name)

\* the loop body of StackedValueWidget.init_ui: the inner widget is made and added to the
\* stack, then the selector is given its name
add_inner(c, name) == add_option([c EXCEPT !.inners = Append(@, name)], name)

\* CheckBoxSelector.fill with an int
CheckBoxSelector_fill(c, index) == [c EXCEPT !.checked = (index # 0)]

\* CheckBoxSelector.fill with a name: Selector.fill looks the index up and fills again
CheckBoxSelector_fill_name(c, name) ==
    IF has_option(c.options, name)
    THEN CheckBoxSelector_fill(c, index_of(c.options, name) - 1)
    ELSE [c EXCEPT !.exc = KeyError]

\* a handler of the selector ends
SetSelector(c, name) ==
    /\ call' = [c EXCEPT !.last = name]
    /\ UNCHANGED <<heap, templates, sink, made, wvars>>

\* init_ui's loop reaches the next inner template, named name
AddInner(name) ==
    /\ ~call.built
    /\ call.exc = NoExc
    /\ Len(call.inners) < MaxOptions
    /\ ~has_option(call.inners, name)
    /\ SetSelector(add_inner(call, name), "add_option")

\* init_ui's loop ends
Built ==
    /\ ~call.built
    /\ call.exc = NoExc
    /\ SetSelector([call EXCEPT !.built = TRUE], "init_ui")

\* the user toggles the check box
SelectorToggle ==
    /\ call.built
    /\ SetSelector([call EXCEPT !.checked = ~@, !.exc = NoExc], "toggled")

\* a caller fills the selector with the name of an option
SelectorFill(name) ==
    /\ call.built
    /\ SetSelector(CheckBoxSelector_fill_name([call EXCEPT !.exc = NoExc], name), "fill")

InitSelector ==
    /\ InitAs(Constructed)
    /\ heap = <<>>
    /\ templates = <<>>
    /\ sink = <<>>
    /\ made = <<>>
    /\ call = CheckBoxSelector

NextSelector ==
    \/ \E name \in OptionNames : AddInner(name)
    \/ Built
    \/ SelectorToggle
    \/ \E name \in OptionNames : SelectorFill(name)

SpecSelector == InitSelector /\ [][NextSelector]_vars

(***************************************************************************)
(* A FidgetConfirmer constructed without cancel_value, around the same     *)
(* stacked widget                                                          *)
(***************************************************************************)
InitNoCancel ==
    /\ InitAs(Constructed)
    /\ heap = <<>>
    /\ templates = <<>>
    /\ sink = <<>>
    /\ made = <<>>
    /\ call = [fn |-> "FidgetConfirmer", cancel_value |-> NO_CANCEL]

\* Ok clicks and Return presses, inner edits, reads, closes; there is no cancel button
NextNoCancel ==
    \/ \E t \in Texts : EditText(t)
    \/ Toggle
    \/ \E i \in 0..(Len(inners) - 1) : Select(i)
    \/ ReadValue("cf")
    \/ OkClick
    \/ OkSlot
    \/ \E sp \in BOOLEAN : Close(sp)
    \/ Show

SpecNoCancel == InitNoCancel /\ [][NextNoCancel]_vars

(***************************************************************************)
(* StackedValueWidget.__init__ and init_ui over any list of named options  *)
(***************************************************************************)
\* dict[k] = v on a dict kept as the sequence of its items: a key that is there keeps
\* its place and takes the new value
dict_set(d, k, v) ==
    IF \E i \in DOMAIN d : d[i][1] = k
    THEN [i \in DOMAIN d |-> IF d[i][1] = k THEN <<k, v>> ELSE d[i]]
    ELSE Append(d, <<k, v>>)

\* dict(pairs): the first n pairs set one after the other
RECURSIVE dict(_, _)
dict(pairs, n) ==
    IF n = 0 THEN <<>> ELSE dict_set(dict(pairs, n - 1), pairs[n][1], pairs[n][2])

\* self.inner_templates of StackedValueWidget.__init__
inner_templates(named) == dict(named, Len(named))

\* one pass of init_ui's loop: the inner widget is made from its template and set into
\* self.inners, TypeError when the name is there already; then selector.add_option
init_ui_body(c, item) ==
    IF c.exc # NoExc THEN c
    ELSE IF has_option(c.inners, item[1]) THEN [c EXCEPT !.exc = TypeError]
    ELSE Selector_add_option([c EXCEPT !.inners = Append(@, item[1]),
                                       !.made = Append(@, item[2])],
                             item[1])

\* init_ui's loop over self.inner_templates.items(), the first n items
RECURSIVE init_ui_loop(_, _)
init_ui_loop(items, n) ==
    IF n = 0 THEN [options |-> <<>>, inners |-> <<>>, made |-> <<>>, exc |-> NoExc]
    ELSE init_ui_body(init_ui_loop(items, n - 1), items[n])

\* StackedValueWidget(title, named): the widget as its construction leaves it
StackedValueWidget(named) ==
    init_ui_loop(inner_templates(named), Len(inner_templates(named)))

\* the pending constructor call runs
ConstructStacked ==
    /\ call.fn = "StackedValueWidget"
    /\ ~call.done
    /\ call' = [call EXCEPT !.done = TRUE, !.self = StackedValueWidget(call.named)]
    /\ UNCHANGED <<heap, templates, sink, made, wvars>>

\* a list of one to MaxOptions options, the i-th a pair of a name and its template i
InitStacked ==
    /\ InitAs(Constructed)
    /\ heap = <<>>
    /\ templates = <<>>
    /\ sink = <<>>
    /\ made = <<>>
    /\ \E n \in 1..MaxOptions :
           \E names \in [1..n -> OptionNames] :
               call = [fn |-> "StackedValueWidget",
                       named |-> [i \in 1..n |-> <<names[i], i>>],
                       done |-> FALSE,
                       self |-> [options |-> <<>>, inners |-> <<>>, made |-> <<>>,
                                 exc |-> NoExc]]

SpecStacked == InitStacked /\ [][ConstructStacked]_vars

(***************************************************************************)
(* The widgets with a validation_func of A that raises some other exception *)
(***************************************************************************)
\* A's validation_func raises RuntimeError for some of the texts a user can type; the
\* empty text the widgets are constructed with is not among them
InitRaising ==
    /\ InitAs(Constructed)
    /\ heap = <<>>
    /\ templates = <<>>
    /\ sink = <<>>
    /\ made = <<>>
    /\ \E r \in (SUBSET {"a", "b"}) \ {{}} : call = [fn |-> "validation_func", raises |-> r]

NextRaising ==
    \/ \E t \in Texts : EditText(t)
    \/ Toggle
    \/ \E i \in 0..(Len(inners) - 1) : Select(i)
    \/ \E w \in Widgets : ReadValue(w)
    \/ \E w \in Widgets : DirectParse(w)

SpecRaising == InitRaising /\ [][NextRaising]_vars

(***************************************************************************)
(* ValueCheckBox.fill over any value_selector                              *)
(***************************************************************************)
\* the values a value_selector maps to and the keys fill is given
SelectorItems == {PyTrue, PyFalse, PyOne, PyZero, "a"}

\* ValueCheckBox.fill, looking at the type of the key before the mapped values
ValueCheckBox_fill_selected_bool_first(value_selector, key) ==
    IF isinstance_bool(key) THEN Ret(key = PyTrue)
    ELSE IF py_eq(key, value_selector[2]) THEN Ret(TRUE)
    ELSE IF py_eq(key, value_selector[1]) THEN Ret(FALSE)
    ELSE Exc(ValueError)

\* ValueCheckBox.fill of a checkbox whose value_selector is the pair (false_val,
\* true_val): the v handed to checkbox.setChecked, or the exception raised
ValueCheckBox_fill_selected(value_selector, key) ==
    IF py_eq(key, value_selector[2]) THEN Ret(TRUE)
    ELSE IF py_eq(key, value_selector[1]) THEN Ret(FALSE)
    ELSE IF isinstance_bool(key) THEN Ret(key = PyTrue)
    ELSE Exc(ValueError)

\* the pending fill runs: checkbox.setChecked(v), unless fill raised
FillSelected ==
    /\ call.fn = "ValueCheckBox.fill"
    /\ ~call.done
    /\ call' = [call EXCEPT
                   !.done = TRUE,
                   !.ret = ValueCheckBox_fill_selected(call.value_selector, call.key),
                   !.isChecked =
                       IF ValueCheckBox_fill_selected(call.value_selector, call.key).k = "return"
                       THEN ValueCheckBox_fill_selected(call.value_selector, call.key).v
                       ELSE @]
    /\ UNCHANGED <<heap, templates, sink, made, wvars>>

\* a checkbox of any value_selector, checked or not, about to be filled with any key
InitFillSelected ==
    /\ InitAs(Constructed)
    /\ heap = <<>>
    /\ templates = <<>>
    /\ sink = <<>>
    /\ made = <<>>
    /\ \E fv \in SelectorItems, tv \in SelectorItems, key \in SelectorItems, c \in BOOLEAN :
           call = [fn |-> "ValueCheckBox.fill", value_selector |-> <<fv, tv>>, key |-> key,
                   isChecked |-> c, done |-> FALSE, ret |-> Ret(c)]

SpecFillSelected == InitFillSelected /\ [][FillSelected]_vars

(***************************************************************************)
(* What the claims speak of                                                *)
(***************************************************************************)
\* the ParsedValue the next w.value() returns
NextValue(w) == value(St, w)._value[w]

\* parse() then validate() run on the UI state as it is now, no cache consulted
Fresh(w) == value([St EXCEPT !._value = [x \in Widgets |-> Unset]], w)._value[w]

\* the exception a direct w.parse() / w.validate() raises on the UI state as it is now
DirectExc(w) == raised(parse([St EXCEPT !._value = [x \in Widgets |-> Unset]], w), w).exc

\* the positions of the last handler's trace holding step e of widget w
At(w, e) == {i \in DOMAIN trace : trace[i] = <<w, e>>}
Happened(w, e) == At(w, e) # {}

\* whether position i follows a step e of w
Follows(i, w, e) == i + 1 \in At(w, e)

\* the steps of w.change_value in the trace: _invalidate_value, _update_indicator
\* (which refreshes, or returns at once when suppressed) and on_change.emit
StepKind(e) ==
    CASE e = "invalidate" -> "invalidate"
      [] e \in {"indicator", "suppressed"} -> "indicator"
      [] e = "emit" -> "emit"
      [] OTHER -> "other"
Steps(w) ==
    SelectSeq([i \in DOMAIN trace |-> IF trace[i][1] = w THEN StepKind(trace[i][2]) ELSE "other"],
              LAMBDA k : k # "other")

\* whether sequence q repeats the three steps of order
Repeats(q, order) ==
    /\ Len(q) % 3 = 0
    /\ \A i \in DOMAIN q : q[i] = order[((i - 1) % 3) + 1]

\* the positions inside st's suppress_update region of the last handler
InRegion(i) ==
    /\ \E j \in At("st", "suppress_enter") : j < i
    /\ \A j \in At("st", "suppress_exit") : i < j
RegionEnded == Happened("st", "suppress_exit")
InRegionCount(e) == Cardinality({i \in At("st", e) : InRegion(i)})
AfterRegionCount(e) == Cardinality({i \in At("st", e) : \E j \in At("st", "suppress_exit") : j < i})

\* C1: for every value widget, the ParsedValue the next value() returns is parse() then
\* validate() of the UI state at the moment of the read
C1_NeverStale ==
    \A w \in {"A", "B", "st", "cf"} : NextValue(w) = Fresh(w)

\* C1 as amended: the line edit, the checkbox, the selector and the stacked widget are
\* never stale; the confirmer is fresh in the states a handler that invalidated it
\* (Ok, Cancel, a spontaneous close) leaves
C1_NeverStaleButConfirmer ==
    /\ \A w \in {"A", "B", "sel", "st"} : NextValue(w) = Fresh(w)
    /\ Happened("cf", "invalidate") => NextValue("cf") = Fresh("cf")
    /\ Happened("cf", "invalidate") => op \in {"_ok_btn_clicked", "_cancel_btn_clicked", "closeEvent"}

\* C1's case: A was edited into a valid text, the stacked widget's value follows, the
\* confirmer's does not
C1_Witness ==
    /\ op = "EditText"
    /\ text = "a"
    /\ stackedIndex = 0
    /\ NextValue("st") = from_value("a")
    /\ NextValue("cf") = from_error(ParseError)

\* C2: between two invalidations of a widget, value() reloads at most once and every
\* call returns the one cached ParsedValue
C2_Memoized ==
    /\ \A w \in Widgets : reloads[w] <= 1
    /\ lastret.w # "none" => lastret.pv = _value[lastret.w]

\* C2's case: a value() call answered from the cache, after the one reload
C2_Witness ==
    /\ op = "value"
    /\ lastret.w = "st"
    /\ trace = <<>>
    /\ reloads["st"] = 1

\* C3: value() raises neither ParseError nor ValidationError: it returns and caches an
\* Err carrying the exception that parse() or validate() raised; only the direct calls
\* raise
C3_ErrorsCaptured ==
    /\ op = "value" => exc = NoExc /\ lastret.pv = _value[lastret.w]
    /\ exc \in Caught => op = "parse"
    /\ \A w \in Widgets :
           Happened(w, "reload") =>
               IF DirectExc(w) \in Caught
               THEN _value[w] = from_error(DirectExc(w))
               ELSE is_ok(_value[w])

\* C3's case: value() of the stacked widget returned the Err of A's validation_func
C3_Witness ==
    /\ op = "value"
    /\ lastret = [w |-> "st", pv |-> from_error(ValidationErrorFunc)]
    /\ DirectExc("st") = ValidationErrorFunc

\* C4: change_value() clears the cache, then emits on_change, then refreshes the
\* indicator
C4_EmitThenIndicator ==
    \A w \in Widgets : Repeats(Steps(w), <<"invalidate", "emit", "indicator">>)

\* C4 as amended: change_value() clears the cache, then refreshes the indicator, and
\* only after that emits on_change
C4_IndicatorThenEmit ==
    \A w \in Widgets : Repeats(Steps(w), <<"invalidate", "indicator", "emit">>)

\* C4's case: an edit of A ran change_value of A and of the stacked widget
C4_Witness ==
    /\ op = "EditText"
    /\ Len(Steps("A")) = 3
    /\ Len(Steps("st")) = 3

\* C5: change_value() does not run parse(): the cache stays unset until value() is
\* next read
C5_LazyAfterInvalidate ==
    /\ \A w \in Widgets : \A i \in At(w, "invalidate") : ~Follows(i, w, "reload")
    /\ \A w \in {"A", "B"} : Happened(w, "invalidate") => _value[w] = Unset

\* C5 as amended: change_value() unsets the cache and, unless updates are suppressed,
\* reloads it at once (through _update_indicator) before it emits; inside a
\* suppress_update region the cache is still unset when on_change is emitted
C5_ReloadUnlessSuppressed ==
    /\ \A w \in Widgets : \A i \in At(w, "invalidate") :
           \/ Follows(i, w, "reload")
           \/ Follows(i, w, "suppressed") /\ Follows(i + 1, w, "emit")
    /\ \A i \in At("st", "invalidate") : InRegion(i) => Follows(i, "st", "suppressed")
    /\ \A w \in Widgets : \A i \in At(w, "invalidate") :
           ~_suppress_update[w] /\ ~InRegion(i) => Follows(i, w, "reload")
    /\ \A w \in {"A", "B"} : Happened(w, "invalidate") => _value[w] # Unset

\* C5's case: both a change_value that reloaded at once and one that was suppressed
C5_Witness ==
    /\ \E i \in At("st", "invalidate") : Follows(i, "st", "suppressed")
    /\ \E i \in At("A", "invalidate") : Follows(i, "A", "reload")

\* C6: a suppress_update region holding N >= 1 change_value calls emits on_change once,
\* at its exit
C6_OneEmitPerRegion ==
    (RegionEnded /\ InRegionCount("invalidate") >= 1) =>
        /\ Cardinality(At("st", "emit")) = 1
        /\ InRegionCount("emit") = 0

\* C6 as amended: inside the region every change_value call still emits on_change, and
\* the exit adds one more; only the indicator refresh is held back, to the exit of the
\* outermost region
C6_EmitPerChange ==
    Happened("st", "suppress_enter") =>
        /\ InRegionCount("emit") = InRegionCount("invalidate")
        /\ InRegionCount("indicator") = 0
        /\ RegionEnded =>
               /\ AfterRegionCount("emit") = 1
               /\ ~_suppress_update["st"] => AfterRegionCount("indicator") = 1
               /\ Cardinality(At("st", "emit")) = InRegionCount("invalidate") + 1

\* C6's case: an auto-fill that switched the option and changed its text
C6_Witness ==
    /\ op = "_auto_btn_click"
    /\ RegionEnded
    /\ InRegionCount("invalidate") = 2

\* C7: whenever an inner widget emits on_change, the composite that owns it invalidates
\* its own cache and emits its own on_change
C7_CompositesReEmit ==
    /\ \A c \in {"A", "B", "sel"} : \A i \in At(c, "emit") :
           \E j \in At("st", "invalidate") : j > i /\ \E k \in At("st", "emit") : k > j
    /\ \A i \in At("st", "emit") :
           \E j \in At("cf", "invalidate") : j > i /\ \E k \in At("cf", "emit") : k > j

\* C7 as amended: the stacked widget answers every on_change of an inner widget or of
\* its selector by invalidating itself and emitting; the confirmer answers its inner
\* widget's on_change with _inner_changed alone: it is invalidated only by Ok, Cancel
\* and a spontaneous close
C7_StackedReEmits ==
    /\ \A c \in {"A", "B"} : \A i \in At(c, "emit") : Follows(i, "st", "invalidate")
    /\ \A i \in At("sel", "emit") :
           Follows(i, "st", "_selector_changed") /\ Follows(i + 1, "st", "invalidate")
    /\ \A i \in At("st", "invalidate") : \E k \in At("st", "emit") : k > i
    /\ \A i \in At("st", "emit") :
           Follows(i, "cf", "_inner_changed") /\ ~Follows(i + 1, "cf", "invalidate")
    /\ Happened("st", "emit") => ~Happened("cf", "invalidate")

\* C7's case: the checkbox emitted, the stacked widget re-emitted, the confirmer heard it
C7_Witness ==
    /\ op = "Toggle"
    /\ Happened("B", "emit")
    /\ Happened("st", "emit")
    /\ Happened("cf", "_inner_changed")

\* the kwargs dict of template i now, and before the last call
KwargsOf(i) == heap[templates[i].kwargs]
KwargsBefore(i) == call.heap[call.templates[i].kwargs]

\* C8: t.template(*a, **k) returns a new template of t's widget class whose args are
\* t.args followed by a and whose kwargs are t.kwargs overridden by k, and it leaves
\* every template that existed before the call, t included, with the args and kwargs
\* it had
C8_TemplateAppendOnly ==
    call.fn = "template" =>
        /\ call.ret = Len(call.templates) + 1
        /\ Len(templates) = call.ret
        /\ templates[call.ret].widget_cls = call.templates[call.self].widget_cls
        /\ templates[call.ret].args = call.templates[call.self].args \o call.args
        /\ \A x \in KeySet :
               KwargsOf(call.ret)[x] = IF call.kwargs[x] # Absent THEN call.kwargs[x]
                                       ELSE KwargsBefore(call.self)[x]
        /\ \A i \in DOMAIN call.templates :
               /\ templates[i].widget_cls = call.templates[i].widget_cls
               /\ templates[i].args = call.templates[i].args
               /\ KwargsOf(i) = KwargsBefore(i)

\* C8's case: the second template() of a chain, adding an argument and overriding a
\* keyword its parent holds
C8_Witness ==
    /\ call.fn = "template"
    /\ Len(templates) = 3
    /\ call.self = 2
    /\ call.args = <<"title">>
    /\ KwargsOf(2)["make_indicator"] = PyTrue
    /\ KwargsOf(3)["make_indicator"] = PyFalse

\* the candidate of template i for key k: its explicit kwarg, else the uppercase
\* attribute of its widget class
Cand(i, k) ==
    IF KwargsOf(i)[k] \notin {Absent, None} THEN KwargsOf(i)[k]
    ELSE getattr_upper(templates[i].widget_cls, k)
UnionAt(k) == {i \in DOMAIN templates : Cand(i, k) # None /\ py_eq(Cand(i, k), call.union)}
NotNoneAt(k) == {i \in DOMAIN templates : Cand(i, k) # None}
Skipped(k) == call.sink[k] # Absent \/ getattr_upper(call.upper_space, k) # None
Least(S) == CHOOSE i \in S : \A j \in S : i <= j
Greatest(S) == CHOOSE i \in S : \A j \in S : j <= i

\* C9: for a key that is not skipped, extract_default writes the union polarity when a
\* candidate equals it, looking no further than the first such candidate; otherwise it
\* writes the last candidate that is not None; it leaves the key absent when every
\* candidate is None; a skipped key keeps what the sink held
C9_UnionElseLast ==
    (call.fn = "extract_default" /\ call.done) =>
        \A k \in KeySet :
            IF Skipped(k) THEN sink[k] = call.sink[k] /\ call.seen[k] = 0
            ELSE IF UnionAt(k) # {}
                 THEN sink[k] = call.union /\ call.seen[k] = Least(UnionAt(k))
            ELSE IF NotNoneAt(k) # {}
                 THEN sink[k] = Cand(Greatest(NotNoneAt(k)), k) /\ call.seen[k] = Len(templates)
            ELSE sink[k] = Absent

\* C9's case: the first of two templates favours the union polarity through its class
\* constant, the second says False; and a key decided by the last candidate alone
C9_Witness ==
    /\ call.fn = "extract_default"
    /\ call.done
    /\ call.union = PyTrue
    /\ Len(templates) = 2
    /\ Cand(1, "make_indicator") = PyTrue
    /\ KwargsOf(2)["make_indicator"] = PyFalse
    /\ sink["make_indicator"] = PyTrue
    /\ call.seen["make_indicator"] = 1
    /\ sink["make_plaintext"] = PyFalse

\* the make_* keys of ValueWidget.__init__
MakeKeys == {"make_title", "make_indicator", "make_plaintext"}

\* C10: a keyword that is not None overrides the class constant, an explicit False over
\* a constant True included; the constant is used only when the keyword is None; and
\* the construction raises TypeError when both are None
C10_KeywordOverridesConstant ==
    (call.fn = "__init__" /\ call.done) =>
        IF \E k \in MakeKeys : get(call.kwargs, k) = None /\ getattr_upper(call.cls, k) = None
        THEN made.exc = TypeError
        ELSE /\ made.exc = NoExc
             /\ \A k \in MakeKeys :
                    made[k] = IF get(call.kwargs, k) # None THEN get(call.kwargs, k)
                              ELSE getattr_upper(call.cls, k)

\* C10's case: make_indicator = False given to a class whose MAKE_INDICATOR is True
C10_Witness ==
    /\ call.fn = "__init__"
    /\ call.done
    /\ call.cls = "PlaintextEditWidget"
    /\ call.kwargs["make_indicator"] = PyFalse
    /\ made.exc = NoExc
    /\ made.make_indicator = PyFalse
    /\ made.make_title = PyFalse

\* C11: after a click on Cancel the confirmer's value() is Ok(cancel_value), whether the
\* inner widget's value is Ok or Err
C11_CancelIsOk ==
    op = "_cancel_btn_clicked" =>
        /\ cancel_flag
        /\ _value["cf"] = from_value(cancel_value)
        /\ NextValue("cf") = from_value(cancel_value)

\* C11's case: Cancel was clicked while the inner widget's value is an Err
C11_Witness ==
    /\ op = "_cancel_btn_clicked"
    /\ ~is_ok(NextValue("st"))
    /\ NextValue("cf") = from_value(cancel_value)

\* the handlers of the Ok and Cancel buttons
Confirming == {"_ok_btn_clicked", "_cancel_btn_clicked"}

\* C12: with close_on_confirm, Ok and Cancel close the confirmer exactly when its value
\* after the action is Ok, and show the error dialog and leave it open otherwise; a
\* closed confirmer holding an Err arises only from a close event
C12_CloseOnlyWhenOk ==
    [][/\ op' \in Confirming =>
            /\ closed' <=> is_ok(_value'["cf"])
            /\ Happened("cf", "critical")' <=> ~is_ok(_value'["cf"])
            /\ Happened("cf", "close")' <=> is_ok(_value'["cf"])
       /\ (closed' /\ ~is_ok(_value'["cf"])) =>
            \/ op' = "closeEvent"
            \/ closed /\ ~is_ok(_value["cf"])]_vars

\* C12's case: Ok ran while the inner value is an Err; the confirmer stays open
C12_Witness ==
    /\ op = "_ok_btn_clicked"
    /\ ~is_ok(NextValue("st"))
    /\ _value["cf"] = from_error(ParseError)
    /\ Happened("cf", "critical")
    /\ ~closed

\* C13: a spontaneous close does to the confirmer's value what a click on Cancel does:
\* it sets cancel_flag, invalidates the cache, emits on_change and leaves value() at
\* Ok(cancel_value); a close by the program leaves the flag and the value as they were
C13_SpontaneousCloseCancels ==
    [][/\ Close(TRUE) =>
            /\ cancel_flag'
            /\ Happened("cf", "invalidate")'
            /\ Happened("cf", "emit")'
            /\ NextValue("cf")' = from_value(cancel_value)
            /\ cancel_flag' = _cancel_btn_clicked(St).cancel_flag
            /\ _value'["cf"] = _cancel_btn_clicked(St)._value["cf"]
       /\ Close(FALSE) =>
            /\ cancel_flag' = cancel_flag
            /\ _value' = _value
            /\ NextValue("cf")' = NextValue("cf")
            /\ ~Happened("cf", "emit")']_vars

\* C13's case: the user closed the window while the inner value was an Err and no
\* Cancel had been clicked
C13_Witness ==
    /\ op = "closeEvent"
    /\ Happened("cf", "invalidate")
    /\ ~is_ok(NextValue("st"))
    /\ _value["cf"] = from_value(cancel_value)
    /\ closed

\* the inner widgets the stack shows
Active == {i \in 1..Len(inners) : inners[i] = current_subwidget(St)}

\* C14: in every reachable state the stack shows exactly one inner widget, and its
\* index is the index the selector parses to
C14_OneActiveAtSelectorIndex ==
    /\ stackedIndex \in 0..(Len(inners) - 1)
    /\ Cardinality(Active) = 1
    /\ parse(St, "sel").k = "return"
    /\ parse(St, "sel").v = stackedIndex
    /\ NextValue("sel") = from_value(stackedIndex)

\* C14's case: the selector was moved to the second option, by the user or by a fill,
\* and _selector_changed turned the page
C14_Witness ==
    /\ Happened("st", "_selector_changed")
    /\ comboIndex = 1
    /\ stackedIndex = 1
    /\ Active = {2}

Offered(i) == plaintext_parsers(St, "st")[i]

\* what parser returns for the text t when wrapped for the option n
WrappedResult(n, parser, t) ==
    IF call_func(St, parser, t).k = "raise" THEN call_func(St, parser, t)
    ELSE Ret(targeted_fill(n, call_func(St, parser, t).v))

\* selector, stack and value() show the option n holding v
Reflects(n, v) ==
    /\ comboIndex = options(n)
    /\ stackedIndex = options(n)
    /\ current_subwidget(St) = n
    /\ n = "A" =>
          /\ text = v
          /\ NextValue("st") = IF LineEdit_validate("A", v) = NoExc THEN from_value(v)
                                ELSE from_error(LineEdit_validate("A", v))
    /\ n = "B" =>
          /\ checked = (v = true_val)
          /\ NextValue("st") = from_value(v)

\* C16: the stacked widget offers every plaintext parser of an option it does not show,
\* wrapped so that its result is targeted_fill(option name, parsed value); fill() of such
\* a result first selects that option and then fills it, so that selector, stack and
\* value() show the option holding the parsed value
C16_WrappedParsersTarget ==
    /\ \A i \in 1..Len(inners) :
          inners[i] # current_subwidget(St) =>
              \A j \in 1..Len(ValueWidget_plaintext_parsers(inners[i])) :
                  \E k \in 1..Len(plaintext_parsers(St, "st")) :
                      /\ Offered(k) = [ValueWidget_plaintext_parsers(inners[i])[j]
                                           EXCEPT !.option_name = inners[i]]
                      /\ \A t \in Texts :
                            call_parser(St, Offered(k), t) =
                                WrappedResult(inners[i],
                                              ValueWidget_plaintext_parsers(inners[i])[j], t)
    /\ \A n \in {"A", "B"}, v \in Texts :
          (op = "fill_parsed" /\ 1 \in At(n, "fill " \o v)) => (exc = NoExc /\ Reflects(n, v))

\* C16's case: while B was shown, a text was parsed by A's wrapped parser and filled in;
\* A is now shown and holds the text, which A's validation rejects
C16_Witness ==
    /\ op = "fill_parsed"
    /\ 1 \in At("A", "fill b")
    /\ Happened("st", "_selector_changed")
    /\ stackedIndex = 0
    /\ text = "b"
    /\ NextValue("st") = from_error(ValidationErrorFunc)

\* the widgets whose classes take a validation_func: the line edit A, the checkbox B (the
\* base class's validate) and the stacked widget st
Validating == {"A", "B", "st"}

\* the value w.parse() returns on the UI state as it is now is one w's own
\* validation_func raises ValidationError for
Rejected(w) ==
    /\ parse(St, w).k = "return"
    /\ parse(St, w).v \in validation_func(w)

\* C17: for every widget class, whenever the validation_func given at construction
\* raises ValidationError for the parsed value, value() is an Err
C17_ValidationFuncApplied ==
    \A w \in Validating : Rejected(w) => ~is_ok(NextValue(w))

\* C17 as the code has it: the validation_func of the line edit and of a widget using
\* the base class's validate is applied; the stacked widget's value() is that of the
\* inner widget it shows, whatever its own validation_func says
C17_AppliedButStacked ==
    /\ \A w \in Validating \ {"st"} :
          Rejected(w) => NextValue(w) = from_error(ValidationErrorFunc)
    /\ NextValue("st") = Fresh(current_subwidget(St))

\* C17's case: the stacked widget shows A holding a text that the stacked widget's
\* validation_func rejects and A accepts, and the stacked widget's value is Ok
C17_Witness ==
    /\ Rejected("st")
    /\ stackedIndex = 0
    /\ ~Rejected("A")
    /\ NextValue("st") = from_value(text)

\* C18: the checkbox parses to true_val when checked and to false_val when not; after
\* fill(value_selector[b]) its value() is Ok(value_selector[b]) and, false_val and true_val
\* being different, the box is checked exactly when b is True
C18_CheckBoxFillRoundTrip ==
    /\ [](/\ parse(St, "B").k = "return"
          /\ parse(St, "B").v = IF checked THEN true_val ELSE false_val)
    /\ [][\A b \in BOOLEAN :
              (/\ op' = "fill"
               /\ FillCheckBox(IF b THEN true_val ELSE false_val))
              => /\ exc' = NoExc
                 /\ NextValue("B")' = from_value(IF b THEN true_val ELSE false_val)
                 /\ false_val # true_val => (checked' <=> b)]_vars

\* C18's case: the checkbox was unchecked and fill(true_val) checked it
C18_Witness ==
    /\ op = "fill"
    /\ Happened("B", "emit")
    /\ ~Happened("sel", "emit")
    /\ false_val # true_val
    /\ checked
    /\ NextValue("B") = from_value(true_val)

\* the keys ValueCheckBox.fill has no branch for
Unmapped == {key \in FillKeys : key \notin {true_val, false_val} /\ ~isinstance_bool(key)}

\* C19: fill(key) on the checkbox with a key that is neither of the two mapped values
\* nor a boolean raises ValueError, leaves the box and every cached value as they were,
\* and emits no on_change
C19_BadKeyRaises ==
    [][\A key \in Unmapped :
          (op' = "fill" /\ FillCheckBox(key))
          => /\ exc' = ValueError
             /\ checked' = checked
             /\ _value' = _value
             /\ \A w \in Widgets : ~Happened(w, "emit")' /\ ~Happened(w, "invalidate")']_vars

\* C19's case: a fill of the checked checkbox raised ValueError and the box is still
\* checked, its value still cached
C19_Witness ==
    /\ op = "fill"
    /\ exc = ValueError
    /\ trace = <<>>
    /\ checked
    /\ _value["B"] = from_value(true_val)

\* the value of the pair (i-th printer, true_val if b else false_val) and what the
\* printer prints for it
PairValue(b) == IF b THEN call.true_val ELSE call.false_val
PairPrint(i, b) == call.printers[i][PairValue(b)]

\* the pair (j, c) comes before the pair (i, b) in from_values' order and prints t
PrintsBefore(j, c, i, b, t) ==
    /\ j < i \/ (j = i /\ c /\ ~b)
    /\ PairPrint(j, c) = Ret(t)

\* C20: from_values(text) returns v when text is what a printer prints for v (true_val or
\* false_val) and no earlier (printer, value) pair prints the same text, and it raises
\* PlaintextParseError when no printer prints text for either value
C20_FromValuesInvertsPrinters ==
    (call.fn = "from_values" /\ call.done) =>
        /\ \A i \in DOMAIN call.printers, b \in BOOLEAN :
              (/\ PairPrint(i, b) = Ret(call.text)
               /\ \A j \in DOMAIN call.printers, c \in BOOLEAN :
                      ~PrintsBefore(j, c, i, b, call.text))
              => call.ret = Ret(PairValue(b))
        /\ (\A i \in DOMAIN call.printers, b \in BOOLEAN : PairPrint(i, b) # Ret(call.text))
              => call.ret = Exc(PlaintextParseError)

\* C20's case: the first printer fails on true_val and prints another text for false_val,
\* the second prints the parsed text for true_val, and from_values returned true_val
C20_Witness ==
    /\ call.fn = "from_values"
    /\ call.done
    /\ Len(call.printers) = 2
    /\ call.true_val # call.false_val
    /\ PairPrint(1, TRUE) = Exc(PlaintextPrintError)
    /\ PairPrint(1, FALSE).k = "return"
    /\ PairPrint(1, FALSE) # Ret(call.text)
    /\ PairPrint(2, TRUE) = Ret(call.text)
    /\ call.ret = Ret(call.true_val)

\* a numeric editor of class cls has computed value() on the text t
Computed(cls, t) ==
    /\ call.fn = "value"
    /\ call.done
    /\ call.cls = cls
    /\ call.text = t

\* C21: the integer editor parses its text as int(text, base=0): "0x1A" gives Ok(26),
\* every text int() takes gives Ok of its number, and every other text, "abc" among
\* them, gives an Err holding a ParseError; no ValueError leaves value()
C21_IntBase0 ==
    (call.fn = "value" /\ call.done /\ call.cls = "IntEdit") =>
        /\ call.exc = NoExc
        /\ call.text = <<"0", "x", "1", "A">> => call.ret = from_value(26)
        /\ call.text = <<"a", "b", "c">> => call.ret = from_error(ParseError)
        /\ IF int_base0(call.text).k = "return"
           THEN call.ret = from_value(int_base0(call.text).v)
           ELSE call.ret = from_error(ParseError)

\* C21's case: the integer editor held "0x1A" and its value() is Ok(26)
C21_Witness ==
    /\ Computed("IntEdit", <<"0", "x", "1", "A">>)
    /\ call.ret = from_value(26)

\* what the float editor should make of the text t
FloatOf(t) ==
    IF float(t).k = "return" THEN from_value(float(t).v)
    ELSE IF percent_match(t) /\ float(percent_group(t)).k = "return"
    THEN from_value(divide(float(percent_group(t)).v, <<100, 1>>))
    ELSE IF ratio_match(t) THEN from_value(divide(float(num(t)).v, float(den(t)).v))
    ELSE from_error(ParseError)

\* C22: the float editor takes percentages and ratios besides float literals: "12.5%"
\* gives Ok(0.125), "3/4" gives Ok(0.75), and a text of none of the three forms, "abc"
\* among them, gives an Err holding a ParseError
C22_FloatNotations ==
    (call.fn = "value" /\ call.done /\ call.cls = "FloatEdit") =>
        /\ call.exc = NoExc
        /\ call.text = <<"1", "2", ".", "5", "%">> => call.ret = from_value(<<1, 8>>)
        /\ call.text = <<"3", "/", "4">> => call.ret = from_value(<<3, 4>>)
        /\ call.text = <<"a", "b", "c">> => call.ret = from_error(ParseError)
        /\ call.ret = FloatOf(call.text)

\* C22's case: the float editor held "12.5%" and its value() is Ok(1/8)
C22_Witness ==
    /\ Computed("FloatEdit", <<"1", "2", ".", "5", "%">>)
    /\ call.ret = from_value(<<1, 8>>)

Range(f) == {f[i] : i \in DOMAIN f}

\* both classes of the chain are defined
Defined == call.fn = "__init_subclass__" /\ Len(call.attrs) = Len(Hierarchy)

\* C23: an instance of B, which extends A, offers the decorated parsers (and printers)
\* of A together with those B declares under other names
C23_InheritedAndOwn ==
    Defined =>
        /\ Range(call.declared[1].parsers) \cup Range(call.declared[2].parsers)
               \subseteq Range(instance_parsers(call.attrs, 2))
        /\ Range(call.declared[1].printers) \cup Range(call.declared[2].printers)
               \subseteq Range(instance_printers(call.attrs, 2))

\* C23 as the code has it: an instance of B offers the decorated parsers B declares and,
\* only when B declares none, those of A (and likewise for the printers, which str and
\* repr follow)
C23_OwnElseInherited ==
    Defined =>
        /\ instance_parsers(call.attrs, 2) =
               IF call.declared[2].parsers # <<>> THEN call.declared[2].parsers
               ELSE call.declared[1].parsers
        /\ instance_printers(call.attrs, 2) =
               (IF call.declared[2].printers # <<>> THEN call.declared[2].printers
                ELSE call.declared[1].printers) \o <<"str", "repr">>

\* C23's case: A declares the parser p, B declares the parser q, and an instance of B
\* offers q alone
C23_Witness ==
    /\ Defined
    /\ call.declared[1].parsers = <<"p">>
    /\ call.declared[2].parsers = <<"q">>
    /\ instance_parsers(call.attrs, 2) = <<"q">>

\* the step the dialog logs when it calls owner.fill(v)
FillStep(v) == <<IF v.targeted THEN v.option_name ELSE "st", "fill " \o v.value>>
FillSteps == {FillStep(v) : v \in FillArgs}

\* the fields of the owner and of the widgets around it
OwnerState ==
    <<text, checked, comboIndex, stackedIndex, cancel_flag, ok_enabled, closed, _value,
      _suppress_update, indicator>>

\* C24: typing into the dialog's text or picking another parser leaves every field of the
\* owner as it was; owner.fill is called only by commit_parse and apply_parse, only when
\* the value() they read is Ok, and with the value of that ParsedValue
C24_OnlyApplyCommitFill ==
    [][/\ op' \in {"parse_edit", "parse_combo"} => (UNCHANGED OwnerState /\ trace' = <<>>)
       /\ \A i \in DOMAIN trace' :
              trace'[i] \in FillSteps =>
                  /\ op' \in {"commit_parse", "apply_parse"}
                  /\ is_ok(call'.parsed)
                  /\ trace'[i] = FillStep(call'.parsed.value)]_vars

C24_Witness ==
    /\ op = "commit_parse"
    /\ call.parse_edit = "b"
    /\ call.parsed = from_value(targeted_fill("B", "b"))
    /\ trace[1] = <<"B", "fill b">>
    /\ exc = NoExc
    /\ comboIndex = 1
    /\ checked

\* the dialog opened on st: bound, shown, holding a snapshot of st's value and listing
\* st's printers and parsers
Opened ==
    /\ exc = NoExc
    /\ call.owner = "st"
    /\ call.visible
    /\ is_ok(_value["st"]) => call.current_value = _value["st"].value
    /\ call.print_visible = is_ok(_value["st"])
    /\ is_ok(_value["st"]) => call.print_combo = <<all_item("st")>> \o printer_items(St, "st")
    /\ call.parse_combo = <<all_item("st")>> \o plaintext_parsers(St, "st")

\* C25: a click on st's 'text' button opens the dialog with st as its owner, the current
\* value a snapshot of st.value() when that is Ok, the combo boxes listing st's printers
\* and parsers
C25_ClickOpensBound ==
    op = "_plaintext_btn_click" => Opened

\* a click on the 'text' button opens the dialog when an owner was assigned before, and
\* raises AttributeError, showing nothing, when none was
C25_OpensOnceBound ==
    op = "_plaintext_btn_click" =>
        IF call.owner = None
        THEN exc = AttributeError /\ ~call.visible /\ call.parse_combo = <<>>
        ELSE Opened

C25_Witness ==
    /\ op = "_plaintext_btn_click"
    /\ call.owner = None
    /\ exc = AttributeError
    /\ ~call.visible

\* C26: commit_parse or apply_parse reading an Err value shows the error dialog, does not
\* fill the owner, does not close the dialog, and raises nothing
C26_ErrShowsDialog ==
    (op \in {"commit_parse", "apply_parse"} /\ ~is_ok(call.parsed)) =>
        /\ exc = NoExc
        /\ call.critical # ""
        /\ trace = <<>>

\* commit_parse or apply_parse reading an Err value raises AttributeError at
\* self.result_value: no error dialog, the owner not filled, the dialog as it was
C26_ErrRaises ==
    [][(op' \in {"commit_parse", "apply_parse"} /\ ~is_ok(call'.parsed)) =>
           /\ exc' = AttributeError
           /\ call'.critical = ""
           /\ trace' = <<>>
           /\ call'.visible = call.visible
           /\ UNCHANGED OwnerState]_vars

C26_Witness ==
    /\ op = "commit_parse"
    /\ call.owner = "st"
    /\ call.visible
    /\ call.parsed = from_error(ParseError)
    /\ exc = AttributeError
    /\ call.critical = ""

\* what the user sees of the widgets
UiState ==
    <<text, checked, comboIndex, stackedIndex, cancel_flag, ok_enabled, closed, indicator,
      _suppress_update>>

\* C27: when auto_func raises DoNotFill the auto-fill ends without an exception, the UI
\* state and the cached values are as before, nothing is filled and no on_change is
\* emitted, and a message is shown exactly when the exception carries text; when auto_func
\* returns, fill is called right after the region is entered, every step of the fill
\* comes before the region's exit, and a fill that ends normally leaves the filled option
\* showing the value
C27_DoNotFillVetoes ==
    [][/\ \A m \in {"", "no"} :
              (op' = "_auto_btn_click" /\ Len(trace') < 2 /\ AutoClick(auto_raise(m))) =>
                  /\ exc' = NoExc
                  /\ UNCHANGED <<UiState, _value>>
                  /\ trace' = IF m = "" THEN <<>> ELSE <<(<<"st", "critical">>)>>
       /\ (op' = "_auto_btn_click" /\ Len(trace') >= 2) =>
              /\ trace'[1] = <<"st", "suppress_enter">>
              /\ trace'[2] \in FillSteps
              /\ \A j \in DOMAIN trace' :
                     trace'[j] = <<"st", "suppress_exit">> =>
                         \A i \in (j + 1)..Len(trace') : trace'[i][1] \notin {"A", "B", "sel"}
              /\ exc' = NoExc =>
                     /\ \E j \in DOMAIN trace' : trace'[j] = <<"st", "suppress_exit">>
                     /\ trace'[2][1] # "st" => inners[stackedIndex' + 1] = trace'[2][1]
                     /\ inners[stackedIndex' + 1] = "A" =>
                            trace'[2][2] = "fill " \o text'
                     /\ inners[stackedIndex' + 1] = "B" =>
                            trace'[2][2] = "fill " \o (IF checked' THEN true_val ELSE false_val)]_vars

\* C27's case: auto_func raised DoNotFill with a message while the stacked widget held a
\* cached value
C27_Witness ==
    /\ op = "_auto_btn_click"
    /\ trace = <<(<<"st", "critical">>)>>
    /\ _value["st"] # Unset
    /\ text = "a"
    /\ exc = NoExc

\* parse() returned a value, validate() accepted it, and every printer raises on it
PrintFails ==
    /\ call.fn = "_reload_value"
    /\ call.parse.k = "return"
    /\ call.validate = NoExc
    /\ \A i \in DOMAIN call.printers : call.printers[i][call.parse.v].k = "raise"

\* C28: when parse() and validate() succeed and the joined printer raises
\* PlaintextPrintError, value() is Ok with the parsed value and its details are the
\* error description, not a printed text
C28_PrintErrorInline ==
    (PrintFails /\ call.done) =>
        /\ call._value.state = "ok"
        /\ call._value.value = call.parse.v
        /\ call._value.details =
               "details could not be loaded because of a parser error:\n"
                   \o error_details(PlaintextPrintError)
        /\ call._value.details \notin PrintedTexts

C28_Witness ==
    /\ PrintFails
    /\ call.done
    /\ Len(call.printers) = 2
    /\ call.printers[1]["b"] = Ret("x")
    /\ call.parse = Ret("a")
    /\ call._value.state = "ok"

C30_AtMostTwoOptions ==
    /\ Len(call.options) <= 2
    /\ call.exc = NoExc => Len(call.inners) <= 2

\* add_option never raises for the number of options: value_count stays 0, every new
\* name is registered, and the check box is never given the second option's name
C30_NeverCounts ==
    /\ call.value_count = 0
    /\ call.exc # "Exception"
    /\ call.check_text = ""
    /\ call.options = call.inners

C30_Witness ==
    /\ call.last = "add_option"
    /\ Len(call.options) = 3
    /\ Len(call.inners) = 3
    /\ call.exc = NoExc

\* C31: an auto-fill leaves _suppress_update of every widget as it found it, whether the
\* fill inside the suppress_update region returned or raised
C31_RegionRestores ==
    [][op' = "_auto_btn_click" => _suppress_update' = _suppress_update]_vars

\* the region restores the flag when its body returns; when the fill raises, the
\* statements after the yield do not run and the stacked widget is left suppressing
C31_RestoredUnlessRaised ==
    [][op' = "_auto_btn_click" =>
           IF Len(trace') < 2 \/ \E j \in DOMAIN trace' : trace'[j] = <<"st", "suppress_exit">>
           THEN _suppress_update' = _suppress_update
           ELSE /\ exc' # NoExc
                /\ _suppress_update' = [_suppress_update EXCEPT !["st"] = TRUE]]_vars

C31_Witness ==
    /\ op = "_auto_btn_click"
    /\ Happened("st", "suppress_enter")
    /\ ~Happened("st", "suppress_exit")
    /\ exc = ValueError
    /\ _suppress_update["st"]
    /\ indicator["st"] = "ERR"
    /\ is_ok(NextValue("st"))

\* C32: a confirmer constructed without a cancel value never has its cancel flag set, and
\* its value() is never Ok(NO_CANCEL)
C32_NeverCancelled ==
    ~make_cancel =>
        /\ ~cancel_flag
        /\ _value["cf"] # from_value(NO_CANCEL)
        /\ NextValue("cf") # from_value(NO_CANCEL)

\* without a cancel value the flag is set by a spontaneous close and by nothing else, and
\* while it is set value() is Ok(NO_CANCEL)
C32_SetBySpontaneousClose ==
    [][~make_cancel =>
           /\ (cancel_flag' /\ ~cancel_flag) => op' = "closeEvent"
           /\ cancel_flag' => NextValue("cf")' = from_value(NO_CANCEL)
           /\ ~cancel_flag' => NextValue("cf")' # from_value(NO_CANCEL)]_vars

C32_Witness ==
    /\ ~make_cancel
    /\ op = "closeEvent"
    /\ closed
    /\ cancel_flag
    /\ _value["cf"] = from_value(NO_CANCEL)

\* the handlers that edit or fill the widgets inside the confirmer
InnerEdits == {"EditText", "Toggle", "Select", "fill", "fill_parsed", "_auto_btn_click"}

\* the confirmer's value as derived from the stacked widget's value of now
DerivedFromInner ==
    IF is_ok(NextValue("st")) THEN from_value(NextValue("st").value)
    ELSE from_error(ParseError)

\* C33: while the confirmer is cancelled its value() is Ok(cancel_value); an edit of the
\* inner widgets changes neither the flag nor the confirmer's value(); the flag is cleared
\* by an Ok click and by nothing else, and after an Ok click value() is what the inner
\* widget's value gave at that click
C33_CancelledUntilOk ==
    [][/\ cancel_flag' => NextValue("cf")' = from_value(cancel_value)
       /\ (cancel_flag /\ ~cancel_flag') => op' = "_ok_btn_clicked"
       /\ op' \in InnerEdits =>
              /\ cancel_flag' = cancel_flag
              /\ NextValue("cf")' = NextValue("cf")
       /\ op' = "_ok_btn_clicked" =>
              /\ ~cancel_flag'
              /\ NextValue("cf")' = DerivedFromInner']_vars

\* C33's case: the confirmer was cancelled, then the line edit was given a valid text,
\* and the confirmer still returns the cancel value
C33_Witness ==
    /\ op = "EditText"
    /\ cancel_flag
    /\ _value["st"] = from_value("a")
    /\ NextValue("cf") = from_value(cancel_value)

\* C34: the confirmer's Ok button is enabled exactly when the value() of the widget it
\* wraps is Ok, after construction and after every handler that changed that widget
C34_OkEnabledIffInnerOk ==
    /\ ok_enabled = is_ok(NextValue("st"))
    /\ \A i \in At("st", "emit") : \E j \in At("cf", "_inner_changed") : i < j

\* C34's case: an edit of the line edit made the inner value Err, the confirmer heard
\* the inner on_change and disabled its Ok button
C34_Witness ==
    /\ op = "EditText"
    /\ text = "b"
    /\ Happened("st", "emit")
    /\ Happened("cf", "_inner_changed")
    /\ ~is_ok(_value["st"])
    /\ ~ok_enabled

\* whether two options of the list have the same name
Duplicated ==
    \E i \in DOMAIN call.named : \E j \in DOMAIN call.named :
        i # j /\ call.named[i][1] = call.named[j][1]

\* C35: constructing a stacked widget from options two of which have the same name raises
\* an error, and a construction that succeeds leaves as many inner widgets as options
\* were given
C35_DuplicateNameFails ==
    (call.fn = "StackedValueWidget" /\ call.done) =>
        IF Duplicated THEN call.self.exc # NoExc
        ELSE call.self.exc = NoExc /\ Len(call.self.inners) = Len(call.named)

\* the construction never raises for a name: an option whose name comes again later is
\* dropped, its place in the stack taken by the last template of that name
C35_LastOfNameWins ==
    (call.fn = "StackedValueWidget" /\ call.done) =>
        /\ call.self.exc = NoExc
        /\ call.self.options = call.self.inners
        /\ \A i \in DOMAIN call.named :
               \E k \in DOMAIN call.self.inners : call.self.inners[k] = call.named[i][1]
        /\ \A k \in DOMAIN call.self.inners :
               /\ call.named[call.self.made[k]][1] = call.self.inners[k]
               /\ \A i \in DOMAIN call.named :
                      call.named[i][1] = call.self.inners[k] => i <= call.self.made[k]
               /\ \A l \in DOMAIN call.self.inners :
                      l # k => call.self.inners[l] # call.self.inners[k]

C35_Witness ==
    /\ call.fn = "StackedValueWidget"
    /\ call.done
    /\ call.named = <<(<<"one", 1>>), (<<"two", 2>>), (<<"one", 3>>)>>
    /\ call.self.exc = NoExc
    /\ call.self.inners = <<"one", "two">>
    /\ call.self.made = <<3, 2>>

\* C36: when the selector's choice changes, the page is switched before the stacked
\* widget emits on_change: what the listener of that on_change read through value() is
\* the value of the newly selected option, and the stack shows that option
C36_ListenersSeeNewOption ==
    Happened("st", "_selector_changed") =>
        /\ stackedIndex = comboIndex
        /\ current_subwidget(St) = inners[comboIndex + 1]
        /\ \A i \in At("st", "_selector_changed") :
               \E j \in At("st", "emit") : \E k \in At("cf", "_inner_changed") :
                   i < j /\ j < k
        /\ _value["st"] # Unset
        /\ _value["st"] = Fresh(inners[comboIndex + 1])
        /\ ok_enabled = is_ok(Fresh(inners[comboIndex + 1]))

\* C36's case: the user moved the selector from A, holding a text its validation
\* rejects, to B, and the listener read B's value
C36_Witness ==
    /\ op = "Select"
    /\ comboIndex = 1
    /\ ~is_ok(Fresh("A"))
    /\ Happened("st", "_selector_changed")
    /\ Happened("cf", "_inner_changed")
    /\ is_ok(_value["st"])
    /\ _value["st"] = Fresh("B")
    /\ ok_enabled

\* the steps of the inner widgets in the last handler's trace
InnerSteps == {i \in DOMAIN trace : trace[i][1] \in {"A", "B"}}

\* C37: a targeted fill of the stacked widget that switches the selector emits the
\* stacked widget's on_change for the switch before the target's fill touches the
\* target, and when that fill raises, the selector and the page stay on the target
\* option, whose contents are those it had before
C37_TargetedFillNotAtomic ==
    [][(op' = "fill" /\ Happened("st", "_selector_changed")') =>
           /\ comboIndex' # comboIndex
           /\ Happened("st", "emit")'
           /\ \E j \in At("st", "emit")' : \A i \in InnerSteps' : j < i
           /\ exc' # NoExc =>
                  /\ stackedIndex' = comboIndex'
                  /\ stackedIndex' # stackedIndex
                  /\ text' = text
                  /\ checked' = checked
                  /\ InnerSteps' = {}
                  /\ _value'["st"] = Fresh(inners[comboIndex + 1])']_vars

\* C37's case: the stack showed A, a targeted fill of B with a key B does not map raised
\* ValueError, and the stack shows B
C37_Witness ==
    /\ op = "fill"
    /\ exc = ValueError
    /\ Happened("st", "_selector_changed")
    /\ Happened("st", "emit")
    /\ comboIndex = 1
    /\ stackedIndex = 1
    /\ current_subwidget(St) = "B"

\* what w.parse() followed by w.validate() raises on the widgets as they are, caches
\* included
RaisesNow(w) == raised(parse(St, w), w).exc

\* C38: an exception of parse() or validate() that is neither ParseError nor
\* ValidationError is never cached: the handler in which a reload raised it ends with
\* that reload and with the widget's cache unset; a value() call that finds the cache
\* unset runs parse() again, and it either raises that exception, leaving the cache unset,
\* or returns a cached value that is Ok or the Err of a caught exception
C38_OtherExceptionsPropagate ==
    /\ [](\A w \in Widgets :
              (_value[w] # Unset /\ ~is_ok(_value[w])) => _value[w].value \in Caught)
    /\ []((exc \notin Caught \cup {NoExc} /\ op # "parse") =>
              /\ trace # <<>>
              /\ trace[Len(trace)][2] = "reload"
              /\ _value[trace[Len(trace)][1]] = Unset)
    /\ [][\A w \in Widgets :
              (op' = "value" /\ _value[w] = Unset /\ ReadValue(w)) =>
                  /\ Happened(w, "reload")'
                  /\ IF RaisesNow(w) \in Caught \cup {NoExc}
                     THEN /\ exc' = NoExc
                          /\ _value'[w] # Unset
                     ELSE /\ exc' = RaisesNow(w)
                          /\ _value'[w] = Unset
                          /\ lastret' = lastret]_vars

\* C38's case: A's validation_func raised RuntimeError when the text was typed, and the
\* value() call that followed ran parse() a second time and raised it again
C38_Witness ==
    /\ op = "value"
    /\ exc = RuntimeError
    /\ trace = <<(<<"A", "reload">>)>>
    /\ reloads["A"] = 2
    /\ _value["A"] = Unset

\* the orders in which the templates of the call can be passed
Orders == {p \in [DOMAIN templates -> DOMAIN templates] :
               \A i \in DOMAIN templates : \E j \in DOMAIN templates : p[j] = i}

\* what extract_default leaves in the sink when the templates are passed in the order p
Reordered(p) ==
    extract_default(heap, [i \in DOMAIN templates |-> templates[p[i]]], call.sink,
                    call.upper_space, keys, call.union).d

\* whether every candidate for key k is a boolean or None
AllBoolean(k) == \A i \in DOMAIN templates : Cand(i, k) \in Booleans \cup {None}

\* C39: for a key whose candidates are all booleans or None, what extract_default writes
\* into the sink is the same in whatever order the templates are passed
C39_BooleanKeysOrderFree ==
    (call.fn = "extract_default" /\ call.done) =>
        \A k \in KeySet :
            AllBoolean(k) => \A p \in Orders : Reordered(p)[k] = sink[k]

\* C39's case: two templates disagree on make_indicator, the first saying False and the
\* second True, the union polarity is written, and the reversed order writes it too
C39_Witness ==
    /\ call.fn = "extract_default"
    /\ call.done
    /\ Len(templates) = 2
    /\ call.union = PyTrue
    /\ ~Skipped("make_indicator")
    /\ Cand(1, "make_indicator") = PyFalse
    /\ Cand(2, "make_indicator") = PyTrue
    /\ sink["make_indicator"] = PyTrue
    /\ Reordered([i \in 1..2 |-> 3 - i])["make_indicator"] = PyTrue

\* C40: fill(key) of a checkbox with a boolean key looks at the mapped values before the
\* key's own truth: a key equal to true_val checks the box, otherwise one equal to
\* false_val unchecks it, and only a boolean equal to neither sets the box to itself;
\* with the selector (True, False) or (1, 0), fill(True) unchecks the box
C40_MappedBeforeBoolean ==
    (call.fn = "ValueCheckBox.fill" /\ call.done /\ isinstance_bool(call.key)) =>
        /\ call.ret.k = "return"
        /\ call.isChecked =
               IF py_eq(call.key, call.value_selector[2]) THEN TRUE
               ELSE IF py_eq(call.key, call.value_selector[1]) THEN FALSE
               ELSE call.key = PyTrue
        /\ (/\ call.value_selector \in {<<PyTrue, PyFalse>>, <<PyOne, PyZero>>}
            /\ call.key = PyTrue) => ~call.isChecked

\* C40's case: a checked box with the selector (1, 0) was filled with True and is
\* unchecked
C40_Witness ==
    /\ call.fn = "ValueCheckBox.fill"
    /\ call.done
    /\ call.value_selector = <<PyOne, PyZero>>
    /\ call.key = PyTrue
    /\ call.ret = Ret(FALSE)
    /\ ~call.isChecked

====
